---- MODULE Spec2Model ----
(***************************************************************************)
(* Nacio: the nation record, the stat extractor (apply_ai_stats), the war  *)
(* resolver (Nation.execute_war behind the Declare War handler) and the    *)
(* internal-stability resolution, as a state machine.                      *)
(*                                                                         *)
(* Python floats are tracked as fixed-point integers: a float x is the     *)
(* integer x * Scale.  A step whose float result is not a whole number of  *)
(* 1/Scale units is outside the modelled domain (the ok field of a         *)
(* result), so every equation below is exact real arithmetic, never a      *)
(* rounded one.                                                            *)
(* int() is truncation toward zero and is computed as such.                *)
(***************************************************************************)
EXTENDS Integers, Sequences, FiniteSets, TLC

VARIABLES nation, turn, messages, saved, session, last, steps, archive

vars == <<nation, turn, messages, saved, session, last, steps, archive>>

\* ------------------------------------------------------------------ bounds
\* Number of operations explored from each initial nation.
MaxSteps == 2

\* ------------------------------------------------------- number handling
\* Fixed-point unit of the float fields (hundredths).
Scale == 10 * 10

\* A number whose digits overflow the double range: float() gives +inf or
\* -inf for it.  The two infinities are kept as marks beyond every finite
\* value of the model.
PosInf == 10 ^ 9
NegInf == -(10 ^ 9)
IsInf(v) == v = PosInf \/ v = NegInf

\* int(a / b) for b > 0: Python's int() truncates toward zero.
TruncDiv(a, b) == IF a >= 0 THEN a \div b ELSE -((-a) \div b)

Max(a, b) == IF a >= b THEN a ELSE b
Min(a, b) == IF a <= b THEN a ELSE b

\* max(lo, min(hi, x)) as the code writes its clamps.
Clamp(lo, hi, x) == Max(lo, Min(hi, x))

\* int(a * b / d) for d > 0, computed without forming a * b.
TruncMulDiv(a, b, d) ==
    LET x == IF a < 0 THEN -a ELSE a
        y == IF b < 0 THEN -b ELSE b
        q == (x \div d) * y + ((x % d) * y) \div d
    IN IF (a < 0) = (b < 0) THEN q ELSE -q

\* a * b / d is a whole number.
WholeMulDiv(a, b, d) ==
    LET x == IF a < 0 THEN -a ELSE a
        y == IF b < 0 THEN -b ELSE b
    IN ((x % d) * y) % d = 0

\* Products beyond the machine integers, for comparisons only: a * b for
\* 0 <= a, b as <<high, middle, low>> in base Limb.
Limb == 10 ^ 4
Wide(a, b) ==
    LET a1 == a \div Limb
        a0 == a % Limb
        b1 == b \div Limb
        b0 == b % Limb
        low == a0 * b0
        mid == a1 * b0 + a0 * b1 + low \div Limb
    IN <<a1 * b1 + mid \div Limb, mid % Limb, low % Limb>>
\* The comparison with ties counted as greater.
WideAtLeast(x, y) ==
    \/ x[1] > y[1]
    \/ x[1] = y[1] /\ x[2] > y[2]
    \/ x[1] = y[1] /\ x[2] = y[2] /\ x[3] >= y[3]
WideGreater(x, y) ==
    \/ x[1] > y[1]
    \/ x[1] = y[1] /\ x[2] > y[2]
    \/ x[1] = y[1] /\ x[2] = y[2] /\ x[3] > y[3]

\* --------------------------------------------------------------- reports
(***************************************************************************)
(* An AI report is text.  The extractor only ever looks at it through      *)
(* substring tests, str.split on marker strings and two regular            *)
(* expressions, so a text is modelled as the sequence of the pieces those  *)
(* can tell apart:                                                         *)
(*   hdrBold     "**Statistical Impact:**"                                 *)
(*   hdrImpact   "Statistical Impact:"                                     *)
(*   hdrUpdates  "Statistical Updates:"                                    *)
(*   word        prose holding the word "Statistics" and no header         *)
(*   noise       prose ending in a full stop, without "Statistic",         *)
(*               a colon or a number                                       *)
(*   fr          "Factional Reactions:"                                    *)
(*   gr          "Global Reactions Simulated:"                             *)
(*   stat        "<label>: <value>[%]"                                     *)
(*   badstat     "<label>: <words>"          (no number after the colon)   *)
(*   fac         "<name>: <free text> (Support Change: <value>)"           *)
(*   badfac      "<name>: <free text> (Support Change: <value>%)"          *)
(* each on a line of its own.                                              *)
(***************************************************************************)
Tok(t, label, value, pct) == [t |-> t, label |-> label, value |-> value, pct |-> pct]

HdrBold == Tok("hdrBold", "", 0, FALSE)
HdrImpact == Tok("hdrImpact", "", 0, FALSE)
HdrUpdates == Tok("hdrUpdates", "", 0, FALSE)
WordStatistics == Tok("word", "", 0, FALSE)
Noise == Tok("noise", "", 0, FALSE)
FR == Tok("fr", "", 0, FALSE)
GR == Tok("gr", "", 0, FALSE)
StatLine(label, value, pct) == Tok("stat", label, value, pct)
BadStat(label) == Tok("badstat", label, 0, FALSE)
FacLine(name, value) == Tok("fac", name, value, FALSE)
BadFac(name, value) == Tok("badfac", name, value, TRUE)

\* The report values: None, a non-string object, the empty string, a text.
NoneReport == [kind |-> "none", toks |-> <<>>]
NonStrReport == [kind |-> "nonstr", toks |-> <<>>]
EmptyReport == [kind |-> "text", toks |-> <<>>]
Text(toks) == [kind |-> "text", toks |-> toks]

\* `needle in text` for the marker strings.  "**Statistical Impact:**"
\* holds "Statistical Impact:", and every header holds "Statistic".
HasTok(toks, kinds) == \E i \in 1..Len(toks) : toks[i].t \in kinds
HasStatistic(toks) == HasTok(toks, {"hdrBold", "hdrImpact", "hdrUpdates", "word"})
HasHeader(toks) == HasTok(toks, {"hdrBold", "hdrImpact", "hdrUpdates"})

FirstIdx(toks, kinds) ==
    CHOOSE i \in 1..Len(toks) :
        /\ toks[i].t \in kinds
        /\ \A j \in 1..(i - 1) : toks[j].t \notin kinds
LastIdx(toks, kinds) ==
    CHOOSE i \in 1..Len(toks) :
        /\ toks[i].t \in kinds
        /\ \A j \in (i + 1)..Len(toks) : toks[j].t \notin kinds

\* text.split(marker)[-1]: what follows the last marker.
AfterLast(toks, kinds) == SubSeq(toks, LastIdx(toks, kinds) + 1, Len(toks))
\* text.split(marker)[0]: what precedes the first marker (all, if none).
BeforeFirst(toks, kinds) ==
    IF HasTok(toks, kinds) THEN SubSeq(toks, 1, FirstIdx(toks, kinds) - 1) ELSE toks
\* text.split(marker)[1]: between the first marker and the second (or the end).
SecondPiece(toks, kinds) ==
    BeforeFirst(SubSeq(toks, FirstIdx(toks, kinds) + 1, Len(toks)), kinds)

\* ------------------------------------------------------------ extractor
\* The dispatch keywords a lower-cased, stripped label contains
\* (`"gdp" in stat_name`, ...), for the labels of the model.
LabelKeywords(label) ==
    CASE label = "GDP" -> {"gdp"}
      [] label = "Treasury" -> {"treasury"}
      [] label = "Population" -> {"population"}
      [] label = "Military Strength" -> {"military"}
      [] label = "Political Stability" -> {"stability"}
      [] label = "Public Approval" -> {"approval"}
      [] label = "Tech Level" -> {"tech"}
      [] label = "Ind Level" -> {"ind level"}
      [] label = "Industrialization" -> {"industrialization"}
      [] label = "Military Tech" -> {"military", "tech"}
      [] OTHER -> {}

\* The if/elif chain of the dispatch: the first keyword test that succeeds.
Dispatch(label) ==
    LET k == LabelKeywords(label) IN
    IF "gdp" \in k THEN "gdp"
    ELSE IF "treasury" \in k THEN "treasury"
    ELSE IF "population" \in k THEN "population"
    ELSE IF "military" \in k THEN "military"
    ELSE IF "stability" \in k THEN "stability"
    ELSE IF "approval" \in k THEN "approval"
    ELSE IF "tech" \in k THEN "tech"
    ELSE IF "ind level" \in k \/ "industrialization" \in k THEN "industrialization"
    ELSE "ignored"

\* The section the core regex scans.
StatsSection(toks) ==
    LET sec == IF HasTok(toks, {"hdrBold"}) THEN AfterLast(toks, {"hdrBold"})
               ELSE IF HasTok(toks, {"hdrImpact"}) THEN AfterLast(toks, {"hdrImpact"})
               ELSE IF HasTok(toks, {"hdrUpdates"}) THEN AfterLast(toks, {"hdrUpdates"})
               ELSE toks
    IN BeforeFirst(sec, {"fr"})

\* re.findall of the core pattern: a stat line gives (label, value, %); a
\* faction line gives ("Support Change", value, "") from its parenthesis;
\* nothing else of the model holds "<letters>: <number>".
CoreMatches(sec) ==
    LET m(tk) == IF tk.t = "fac" THEN StatLine("Support Change", tk.value, FALSE)
                 ELSE IF tk.t = "badfac" THEN StatLine("Support Change", tk.value, TRUE)
                 ELSE tk
        sel == SelectSeq(sec, LAMBDA tk : tk.t \in {"stat", "fac", "badfac"})
    IN [i \in 1..Len(sel) |-> m(sel[i])]

\* The section and matches of the faction pattern.  `.` does not cross a
\* line and the value must be followed by `)`, so only fac lines match.
FactionsSection(toks) == BeforeFirst(SecondPiece(toks, {"fr"}), {"gr"})
FactionMatches(sec) == SelectSeq(sec, LAMBDA tk : tk.t = "fac")

\* FloatDelta with the percent sign dropped: every value is added as it stands.
FloatDeltaRawOnly(cur, value, pct) == [ok |-> TRUE, d |-> value]

\* current + current * (value / 100), or current + value.
\* ok: the float result is a whole number of 1/Scale units.
FloatDelta(cur, value, pct) ==
    IF pct THEN [ok |-> WholeMulDiv(cur, value, 100 * Scale),
                 d |-> TruncMulDiv(cur, value, 100 * Scale)]
    ELSE [ok |-> TRUE, d |-> value]

\* max(0.0, min(100.0, x + value)) for a finite x.
Clamp100(x, value) ==
    IF value = PosInf THEN 100 * Scale
    ELSE IF value = NegInf THEN 0
    ELSE Clamp(0, 100 * Scale, x + value)

\* ClampLevel without its floor: min(5, x).
ClampLevelNoFloor(x) == Min(5, x)

\* max(1, min(5, x)).
ClampLevel(x) == Clamp(1, 5, x)

\* One iteration of the loop over the core matches.  raised: the
\* iteration raised (int() of an infinity); ok as in FloatDelta.
CoreStep(n, m) ==
    LET d == Dispatch(m.label)
        v == m.value
        same == [n |-> n, raised |-> FALSE, ok |-> TRUE]
    IN
    IF d = "gdp" THEN
        LET fd == FloatDelta(n.gdp, v, m.pct) IN
        [n |-> [n EXCEPT !.gdp = @ + fd.d], raised |-> FALSE, ok |-> fd.ok /\ ~IsInf(v)]
    ELSE IF d = "treasury" THEN
        LET fd == FloatDelta(n.treasury, v, m.pct) IN
        [n |-> [n EXCEPT !.treasury = @ + fd.d], raised |-> FALSE, ok |-> fd.ok /\ ~IsInf(v)]
    ELSE IF d = "population" THEN
        IF IsInf(v) THEN [n |-> n, raised |-> TRUE, ok |-> TRUE]
        ELSE IF m.pct
        THEN [same EXCEPT !.n.population = @ + TruncMulDiv(n.population, v, 100 * Scale)]
        ELSE [same EXCEPT !.n.population = @ + TruncDiv(v, Scale)]
    ELSE IF d = "military" THEN
        LET fd == FloatDelta(n.military_strength, v, m.pct) IN
        [n |-> [n EXCEPT !.military_strength = @ + fd.d], raised |-> FALSE,
         ok |-> fd.ok /\ ~IsInf(v)]
    ELSE IF d = "stability" THEN
        [same EXCEPT !.n.political_stability = Clamp100(@, v)]
    ELSE IF d = "approval" THEN
        [same EXCEPT !.n.public_approval = Clamp100(@, v)]
    ELSE IF d = "tech" THEN
        IF IsInf(v) THEN [n |-> n, raised |-> TRUE, ok |-> TRUE]
        ELSE [same EXCEPT !.n.tech_level = ClampLevel(TruncDiv(@ * Scale + v, Scale))]
    ELSE IF d = "industrialization" THEN
        IF IsInf(v) THEN [n |-> n, raised |-> TRUE, ok |-> TRUE]
        ELSE [same EXCEPT !.n.industrialization_level =
                                ClampLevel(TruncDiv(@ * Scale + v, Scale))]
    ELSE same

\* The loop inside the first try: it stops at the first iteration that raises,
\* keeping what the iterations before it assigned.
RECURSIVE CoreLoop(_, _, _)
CoreLoop(acc, ms, i) ==
    IF i > Len(ms) \/ acc.raised THEN acc
    ELSE LET r == CoreStep(acc.n, ms[i]) IN
         CoreLoop([n |-> r.n, raised |-> r.raised, ok |-> acc.ok /\ r.ok], ms, i + 1)

CorePhase(n, toks) ==
    CoreLoop([n |-> n, raised |-> FALSE, ok |-> TRUE], CoreMatches(StatsSection(toks)), 1)

\* One iteration of the loop over the faction matches.  Reading
\* nation.factions raises when the nation has no such attribute.
FactionStep(n, m) ==
    IF ~n.hasFactions THEN [n |-> n, raised |-> TRUE]
    ELSE LET f0 == n.factions
             f1 == IF m.label \in DOMAIN f0 THEN f0
                   ELSE [x \in (DOMAIN f0) \cup {m.label} |->
                            IF x = m.label THEN 50 * Scale ELSE f0[x]]
             f2 == [f1 EXCEPT ![m.label] = Clamp100(@, m.value)]
         IN [n |-> [n EXCEPT !.factions = f2], raised |-> FALSE]

RECURSIVE FactionLoop(_, _, _)
FactionLoop(acc, ms, i) ==
    IF i > Len(ms) \/ acc.raised THEN acc
    ELSE FactionLoop(FactionStep(acc.n, ms[i]), ms, i + 1)

\* The body of the second try (entered when the report holds the marker).
FactionPhase(n, toks) ==
    FactionLoop([n |-> n, raised |-> FALSE], FactionMatches(FactionsSection(toks)), 1)

\* try: ... except Exception: print(...) around each phase.  caught: the
\* phase raised and the handler swallowed it; escaped: it left the function.
CoreTry(n, toks) ==
    LET r == CorePhase(n, toks) IN
    [n |-> r.n, caught |-> r.raised, escaped |-> FALSE, ok |-> r.ok]

\* The second phase without its except clause.
FactionTryNoExcept(n, toks) ==
    LET r == FactionPhase(n, toks) IN
    [n |-> r.n, caught |-> FALSE, escaped |-> r.raised]

FactionTry(n, toks) ==
    LET r == FactionPhase(n, toks) IN
    [n |-> r.n, caught |-> r.raised, escaped |-> FALSE]

\* The failsafe without its substring test.
FailsafeNoWordCheck(report) ==
    \/ report.kind # "text"
    \/ report.toks = <<>>

\* `not ai_report or not isinstance(ai_report, str) or "Statistic" not in ai_report`
Failsafe(report) ==
    \/ report.kind # "text"
    \/ report.toks = <<>>
    \/ ~HasStatistic(report.toks)

\* apply_ai_stats(nation, ai_report).  aborted: the failsafe returned early;
\* coreRaised / facRaised: the phase raised and was caught; facRan: the second
\* try was entered; escaped: an exception reached the caller.
apply_ai_stats(n, report) ==
    IF Failsafe(report)
    THEN [n |-> n, aborted |-> TRUE, coreRaised |-> FALSE, facRan |-> FALSE,
          facRaised |-> FALSE, escaped |-> FALSE, ok |-> TRUE]
    ELSE
      LET c == CoreTry(n, report.toks) IN
      IF c.escaped
      THEN [n |-> c.n, aborted |-> FALSE, coreRaised |-> TRUE, facRan |-> FALSE,
            facRaised |-> FALSE, escaped |-> TRUE, ok |-> c.ok]
      ELSE IF ~HasTok(report.toks, {"fr"})
      THEN [n |-> c.n, aborted |-> FALSE, coreRaised |-> c.caught, facRan |-> FALSE,
            facRaised |-> FALSE, escaped |-> FALSE, ok |-> c.ok]
      ELSE
        LET f == FactionTry(c.n, report.toks) IN
        [n |-> f.n, aborted |-> FALSE, coreRaised |-> c.caught, facRan |-> TRUE,
         facRaised |-> f.caught \/ f.escaped, escaped |-> f.escaped, ok |-> c.ok]

\* ----------------------------------------------------------------- nation
\* gdp_per_capita >= limit in place of > limit.
GdpPerCapitaAtLeast(n, limit) ==
    /\ n.population > 0
    /\ n.gdp > 0
    /\ ~WideGreater(Wide(limit, n.population), Wide(n.gdp, (10 ^ 9) \div Scale))

\* Nation.gdp_per_capita > limit for a limit > 0: gdp * 1e9 / population > limit,
\* the property being 0 when population <= 0.
GdpPerCapitaAbove(n, limit) ==
    /\ n.population > 0
    /\ n.gdp > 0
    /\ WideGreater(Wide(n.gdp, (10 ^ 9) \div Scale), Wide(limit, n.population))

\* Nation.update_era: the ladder, first match wins.
EraOf(n) ==
    IF n.tech_level = 5 /\ n.industrialization_level = 5 /\ GdpPerCapitaAbove(n, 30000)
        THEN "Space Age"
    ELSE IF n.tech_level >= 5 /\ n.industrialization_level >= 4 THEN "Cyber Age"
    ELSE IF n.tech_level >= 4 /\ n.industrialization_level >= 3 THEN "Industrialization Age"
    ELSE IF n.tech_level >= 3 /\ n.industrialization_level >= 2 THEN "Steel Age"
    ELSE IF /\ n.tech_level >= 2
            /\ n.industrialization_level >= 2
            /\ n.political_stability >= 40 * Scale THEN "Iron Age"
    ELSE IF n.tech_level >= 1 /\ GdpPerCapitaAbove(n, 500) THEN "Mythic Age"
    ELSE IF n.industrialization_level >= 2 THEN "Bronze Age"
    ELSE "Stone Age"

update_era(n) == [n EXCEPT !.nation_era = EraOf(n)]

\* Nation.combat_power times 25 * 100 * Scale * Scale (so that it is whole), as
\* the two factors military_strength * (5 + tech) * (5 + ind) and
\* max(0.1, stability / 100) * 100 * Scale.
CombatForce(n) == n.military_strength * (5 + n.tech_level) * (5 + n.industrialization_level)
StabilityModifier(n) == Max(10 * Scale, n.political_stability)

\* Nation.record_stats(year)
record_stats(n, year) ==
    [n EXCEPT !.stat_history = Append(@,
        [Year |-> year, Population |-> n.population, GDP |-> n.gdp,
         Treasury |-> n.treasury, Stability |-> n.political_stability,
         Approval |-> n.public_approval, Military |-> n.military_strength,
         TechLevel |-> n.tech_level, IndLevel |-> n.industrialization_level])]

\* An add_event that keeps the newest entry only.
AddEventKeepsNewest(n, year, summary) ==
    [n EXCEPT !.history =
        <<[year |-> year, summary |-> summary, law_impact |-> "None", event |-> "None"]>>]

\* Nation.add_event(year, summary): law_impact and event keep their defaults.
add_event(n, year, summary) ==
    [n EXCEPT !.history = Append(@,
        [year |-> year, summary |-> summary, law_impact |-> "None", event |-> "None"])]

\* Nation.to_dict: the keys written.  There is no "factions" key.
to_dict(n) ==
    [name |-> n.name,
     save_name |-> n.save_name,
     starting_year |-> n.starting_year,
     briefing_text |-> n.briefing_text,
     flag_emoji |-> n.flag_emoji,
     industrialization_level |-> n.industrialization_level,
     tech_level |-> n.tech_level,
     nation_era |-> n.nation_era,
     population |-> n.population,
     public_approval |-> n.public_approval,
     gdp |-> n.gdp,
     treasury |-> n.treasury,
     world_gdp |-> n.world_gdp,
     world_military |-> n.world_military,
     regional_neighbors |-> n.regional_neighbors,
     stat_history |-> n.stat_history,
     military_strength |-> n.military_strength,
     political_stability |-> n.political_stability,
     history |-> n.history]

\* save_game(nation, turn, messages): the record written to the save slot.
save_game(n, t, msgs) ==
    [present |-> TRUE, turn_number |-> t, nation |-> to_dict(n), messages |-> msgs]

\* --------------------------------------------------------------------- war
\* The bounds of random.randint(max(1, tech - 1), min(5, tech + 1)).
EnemyTechLevels(n) == Max(1, n.tech_level - 1) .. Min(5, n.tech_level + 1)

\* The war cost with the divisor 100 in place of 200.
WarCostPer100(n, force_commitment_pct) == TruncMulDiv(n.gdp, force_commitment_pct, 100)

\* war_cost_gdp = self.gdp * (force_commitment_pct / 200.0)
WarCost(n, force_commitment_pct) == TruncMulDiv(n.gdp, force_commitment_pct, 200)

\* The VICTORY branch without its casualties.
VictoryNoCasualties(n, target_base_strength) ==
    [n EXCEPT !.gdp = @ + target_base_strength \div 2,
              !.population = @ + TruncDiv(target_base_strength * 10000, Scale),
              !.political_stability = @ + 5 * Scale,
              !.public_approval = @ + 10 * Scale]

\* The VICTORY branch: spoils, annexed population, light casualties.
Victory(n, target_base_strength) ==
    [n EXCEPT !.gdp = @ + target_base_strength \div 2,
              !.population = @ + TruncDiv(target_base_strength * 10000, Scale),
              !.military_strength = @ - TruncMulDiv(@, 5, 100),
              !.political_stability = @ + 5 * Scale,
              !.public_approval = @ + 10 * Scale]

\* The DEFEAT branch without the factor 0.5 on the losses.
DefeatFullLosses(n, force_commitment_pct) ==
    [n EXCEPT !.military_strength = @ - TruncMulDiv(@, force_commitment_pct, 100),
              !.political_stability = @ - 15 * Scale,
              !.public_approval = @ - 20 * Scale]

\* The DEFEAT branch: losses in proportion to the commitment.
Defeat(n, force_commitment_pct) ==
    [n EXCEPT !.military_strength = @ - TruncMulDiv(@, force_commitment_pct, 200),
              !.political_stability = @ - 15 * Scale,
              !.public_approval = @ - 20 * Scale]

\* Nation.execute_war(target_name, target_base_strength, force_commitment_pct)
\* with the three random draws as parameters: the enemy tech level and the two
\* random.uniform(0.85, 1.15) factors, in hundredths.
execute_war(n, target_base_strength, force_commitment_pct, enemy_tech, player_rand, enemy_rand) ==
    LET \* player_roll * 25 * 10^6 * Scale^2, kept as a wide product
        player_roll == Wide(CombatForce(n),
                            StabilityModifier(n) * force_commitment_pct * player_rand)
        \* enemy_roll * 500 * Scale
        enemy_roll == target_base_strength * (5 + enemy_tech) * enemy_rand
        \* 25 * 10^6 * Scale^2 = Limb^2 * 2500 and 25 * 10^6 * Scale^2 / (500 * Scale)
        victory == WideGreater(player_roll, Wide(enemy_roll, 50000 * Scale))
        war_cost_gdp == WarCost(n, force_commitment_pct)
        paid == [n EXCEPT !.treasury = @ - war_cost_gdp]
    IN
    [n |-> IF victory THEN Victory(paid, target_base_strength)
           ELSE Defeat(paid, force_commitment_pct),
     result |-> IF victory THEN "VICTORY" ELSE "DEFEAT",
     player_power |-> player_roll[1] \div 2500,
     enemy_power |-> enemy_roll \div (500 * Scale),
     cost_billions |-> war_cost_gdp,
     ok |-> /\ WholeMulDiv(n.gdp, force_commitment_pct, 200)
            /\ IF victory
               THEN target_base_strength % 2 = 0 /\ WholeMulDiv(n.military_strength, 5, 100)
               ELSE WholeMulDiv(n.military_strength, force_commitment_pct, 200)]

\* The methods class AIHandler defines.  The Declare War handler calls
\* generate_war_report, which is not among them: the call raises
\* AttributeError.
AIHandlerMethods ==
    {"generate_starting_nation", "parse_directive", "negotiate", "run_espionage",
     "generate_event"}

\* The target's strength as the Foreign Affairs tab looks it up:
\* regional_neighbors.get(target, world_military.get(target, 200.0)).
TargetBaseStrength(n, target) ==
    IF target \in DOMAIN n.regional_neighbors THEN n.regional_neighbors[target]
    ELSE IF target \in DOMAIN n.world_military THEN n.world_military[target]
    ELSE 200 * Scale

\* The targets the select box offers: the keys of world_gdp and of
\* regional_neighbors, or three fixed names when both are empty.
AvailableTargets(n) ==
    LET t == (DOMAIN n.world_gdp) \cup (DOMAIN n.regional_neighbors) IN
    IF t = {} THEN {"United States", "China", "Russia"} ELSE t

\* del regional_neighbors[target]
RemoveKey(f, k) == [x \in (DOMAIN f) \ {k} |-> f[x]]

\* -------------------------------------------------------------- simulation
\* k strikes in a row, each taking 0.5% of the GDP of the moment.
RECURSIVE Strikes(_, _)
Strikes(acc, k) ==
    IF k = 0 THEN acc
    ELSE Strikes([gdp |-> acc.gdp - TruncMulDiv(acc.gdp, 5, 1000),
                  ok |-> acc.ok /\ WholeMulDiv(acc.gdp, 5, 1000)], k - 1)

\* A resolution that clamps the stability after the factions and again at the
\* end.
ResolveClampsTwice(n) ==
    IF ~n.hasFactions THEN [n |-> n, raised |-> TRUE, ok |-> TRUE]
    ELSE
      LET angry == {f \in DOMAIN n.factions : n.factions[f] < 40 * Scale}
          happy == {f \in DOMAIN n.factions : n.factions[f] > 80 * Scale}
          struck == Strikes([gdp |-> n.gdp, ok |-> TRUE], Cardinality(angry))
          stab1 == n.political_stability - 2 * Scale * Cardinality(angry)
                                         + 1 * Scale * Cardinality(happy)
          unrest == n.public_approval < 30 * Scale
          boom == ~unrest /\ n.public_approval > 80 * Scale
          stab2 == IF unrest THEN Clamp(0, 100 * Scale, stab1) - 5 * Scale ELSE stab1
          gdp2 == IF boom THEN struck.gdp + TruncMulDiv(struck.gdp, 1, 100) ELSE struck.gdp
      IN [n |-> [n EXCEPT !.political_stability = Clamp(0, 100 * Scale, stab2),
                          !.gdp = gdp2],
          raised |-> FALSE,
          ok |-> struck.ok /\ (boom => WholeMulDiv(struck.gdp, 1, 100))]

\* resolve_internal_stability(nation).  Reading nation.factions on the first
\* line raises when the nation has no such attribute, before any assignment.
resolve_internal_stability(n) ==
    IF ~n.hasFactions THEN [n |-> n, raised |-> TRUE, ok |-> TRUE]
    ELSE
      LET angry == {f \in DOMAIN n.factions : n.factions[f] < 40 * Scale}
          happy == {f \in DOMAIN n.factions : n.factions[f] > 80 * Scale}
          struck == Strikes([gdp |-> n.gdp, ok |-> TRUE], Cardinality(angry))
          stab1 == n.political_stability - 2 * Scale * Cardinality(angry)
                                         + 1 * Scale * Cardinality(happy)
          unrest == n.public_approval < 30 * Scale
          boom == ~unrest /\ n.public_approval > 80 * Scale
          stab2 == IF unrest THEN stab1 - 5 * Scale ELSE stab1
          gdp2 == IF boom THEN struck.gdp + TruncMulDiv(struck.gdp, 1, 100) ELSE struck.gdp
      IN [n |-> [n EXCEPT !.political_stability = Clamp(0, 100 * Scale, stab2),
                          !.gdp = gdp2],
          raised |-> FALSE,
          ok |-> struck.ok /\ (boom => WholeMulDiv(struck.gdp, 1, 100))]

\* simulate_population(nation): int(population * (1 + 0.010)), the factors
\* being 1.0 for want of the attributes.
simulate_population(n) == [n EXCEPT !.population = TruncMulDiv(@, 101, 100)]

\* simulate_economy(nation): gdp * (1 + 0.025 + (stability - 50) / 1000).
simulate_economy(n) ==
    [n |-> [n EXCEPT !.gdp = @ + TruncMulDiv(@, n.political_stability - 25 * Scale,
                                              1000 * Scale)],
     ok |-> WholeMulDiv(n.gdp, n.political_stability - 25 * Scale, 1000 * Scale)]

\* ------------------------------------------------------- the AI capability
\* A value is truthy (`if event:`): a non-empty string.
Truthy(report) == report.kind = "text" /\ report.toks # <<>>

\* AIHandler.generate_event(nation, year) when the model answers `answer`
\* (or the error string of the except clause, a text as well).
generate_event(n, year, answer) == IF year >= 2026 THEN NoneReport ELSE answer

\* The cutoff one year late.
TriggerCutoffLate(n, year, answer) ==
    IF year > 2026 THEN [asked |-> FALSE, event |-> NoneReport]
    ELSE [asked |-> TRUE, event |-> generate_event(n, year, answer)]

\* trigger_historical_event(nation, year, ai_handler): asked, the handler's
\* generate_event was called.
trigger_historical_event(n, year, answer) ==
    IF year >= 2026 THEN [asked |-> FALSE, event |-> NoneReport]
    ELSE [asked |-> TRUE, event |-> generate_event(n, year, answer)]

\* The last five entries of nation.history.
RecentHistory(n) == SubSeq(n.history, Max(1, Len(n.history) - 4), Len(n.history))

\* AIHandler.parse_directive(directive_text, nation, turn_number): the history
\* digest reads event['directive'] of the recent entries, outside any try, and
\* then the model's answer (or an error string) is returned.
parse_directive(n, answer) ==
    [raised |-> \E i \in 1..Len(RecentHistory(n)) :
                    "directive" \notin DOMAIN RecentHistory(n)[i],
     text |-> answer]

\* AIHandler.negotiate(...): builds its prompt and falls off the end.
negotiate(target, message, chat) == "None"

\* AIHandler.run_espionage(player_nation, ...): the prompt reads
\* player_nation.espionage_network and intelligence_budget, outside the try.
run_espionage(n, answer) ==
    [raised |-> "espionage_network" \notin DOMAIN n \/ "intelligence_budget" \notin DOMAIN n,
     text |-> answer]

\* A process_turn that leaves the era as it is.
ProcessTurnKeepsEra(n) == n

\* Nation.process_turn
process_turn(n) == update_era(n)

\* ------------------------------------------------------------ the new game
\* An optional argument: {} is None, {v} is the value v.
OrDefault(opt, default) == IF opt = {} THEN default ELSE CHOOSE v \in opt : TRUE

\* Nation.__init__: approval starts at 50.0, treasury at 20% of gdp unless one
\* is given, history is empty, and no factions attribute is created.
\* stat_history is the list given ([] for None).
NewNation(name, year, population, gdp, military_strength, political_stability, briefing, save_name, treasury, world_gdp, world_military, stat_history, flag_emoji, industrialization_level, tech_level, nation_era, regional_neighbors) ==
    [name |-> name,
     save_name |-> save_name,
     starting_year |-> year,
     briefing_text |-> briefing,
     flag_emoji |-> flag_emoji,
     industrialization_level |-> industrialization_level,
     tech_level |-> tech_level,
     nation_era |-> nation_era,
     population |-> population,
     public_approval |-> 50 * Scale,
     gdp |-> gdp,
     treasury |-> OrDefault(treasury, gdp \div 5),
     military_strength |-> military_strength,
     political_stability |-> political_stability,
     world_gdp |-> world_gdp,
     world_military |-> world_military,
     regional_neighbors |-> regional_neighbors,
     stat_history |-> stat_history,
     history |-> <<>>,
     hasFactions |-> FALSE,
     factions |-> <<>>]

\* data.get(key, default)
Get(data, key, default) == IF key \in DOMAIN data THEN data[key] ELSE default

\* from_dict without the assignment of public_approval after the constructor.
FromDictFreshApproval(data) ==
    LET n == NewNation(data.name,
                       Get(data, "starting_year", 1),
                       data.population,
                       data.gdp,
                       data.military_strength,
                       data.political_stability,
                       Get(data, "briefing_text", ""),
                       Get(data, "save_name", "default"),
                       {Get(data, "treasury", data.gdp \div 5)},
                       Get(data, "world_gdp", <<>>),
                       Get(data, "world_military", <<>>),
                       Get(data, "stat_history", <<>>),
                       Get(data, "flag_emoji", "flag"),
                       Get(data, "industrialization_level", 1),
                       Get(data, "tech_level", 1),
                       Get(data, "nation_era", "Stone Age"),
                       Get(data, "regional_neighbors", <<>>))
    IN [n EXCEPT !.history = Get(data, "history", <<>>)]

\* Nation.from_dict(data): the constructor on the stored keys, then
\* public_approval and history set on the new object.
from_dict(data) ==
    LET n == NewNation(data.name,
                       Get(data, "starting_year", 1),
                       data.population,
                       data.gdp,
                       data.military_strength,
                       data.political_stability,
                       Get(data, "briefing_text", ""),
                       Get(data, "save_name", "default"),
                       {Get(data, "treasury", data.gdp \div 5)},
                       Get(data, "world_gdp", <<>>),
                       Get(data, "world_military", <<>>),
                       Get(data, "stat_history", <<>>),
                       Get(data, "flag_emoji", "flag"),
                       Get(data, "industrialization_level", 1),
                       Get(data, "tech_level", 1),
                       Get(data, "nation_era", "Stone Age"),
                       Get(data, "regional_neighbors", <<>>))
    IN [n EXCEPT !.public_approval = Get(data, "public_approval", 50 * Scale),
                 !.history = Get(data, "history", <<>>)]

\* ----------------------------------------------------------------- inputs
\* Stat lines an AI report may carry (values in 1/Scale units).
StatLines ==
    { StatLine("GDP", 10 * Scale, TRUE), StatLine("GDP", 10 * Scale, FALSE),
      StatLine("Treasury", -50 * Scale, TRUE), StatLine("Treasury", 250, FALSE),
      StatLine("Population", 150, TRUE), StatLine("Population", -2000 * Scale, FALSE),
      StatLine("Population", 250, FALSE), StatLine("Population", PosInf, FALSE),
      StatLine("Military Strength", -10 * Scale, TRUE),
      StatLine("Military Strength", 1050, FALSE),
      StatLine("Political Stability", 10 * Scale, FALSE),
      StatLine("Political Stability", -200 * Scale, FALSE),
      StatLine("Political Stability", 10 * Scale, TRUE),
      StatLine("Political Stability", PosInf, FALSE),
      StatLine("Public Approval", -30 * Scale, FALSE),
      StatLine("Public Approval", 200 * Scale, FALSE),
      StatLine("Tech Level", 60, FALSE), StatLine("Tech Level", 1 * Scale, FALSE),
      StatLine("Tech Level", -7 * Scale, FALSE), StatLine("Tech Level", 9 * Scale, FALSE),
      StatLine("Tech Level", NegInf, FALSE),
      StatLine("Ind Level", 1 * Scale, FALSE), StatLine("Industrialization", -50, FALSE),
      StatLine("Industrialization", 4 * Scale, FALSE),
      StatLine("Military Tech", 1 * Scale, FALSE), StatLine("Morale", 5 * Scale, FALSE) }

Loyalists == FacLine("Loyalists", 15 * Scale)
Unions == FacLine("Unions", -60 * Scale)

\* The reports handed to the extractor.
Reports ==
    {NoneReport, NonStrReport, EmptyReport}
    \cup {Text(<<HdrUpdates, s>>) : s \in StatLines}
    \cup {Text(<<h, s>>) :
            h \in {HdrBold, HdrImpact, WordStatistics, Noise},
            s \in {StatLine("GDP", 10 * Scale, FALSE),
                   StatLine("Political Stability", 10 * Scale, FALSE)}}
    \cup {Text(<<HdrUpdates, s, FR, Loyalists>>) :
            s \in {StatLine("GDP", 10 * Scale, FALSE), StatLine("Population", PosInf, FALSE),
                   BadStat("GDP")}}
    \cup { Text(<<Noise>>),
           Text(<<StatLine("GDP", 10 * Scale, TRUE)>>),
           Text(<<Noise, FR, Loyalists>>),
           Text(<<WordStatistics, FR, Loyalists, Unions>>),
           Text(<<WordStatistics, Loyalists>>),
           Text(<<HdrUpdates, FR, Loyalists>>),
           Text(<<HdrUpdates, FR, BadFac("Loyalists", 15 * Scale)>>),
           Text(<<HdrUpdates, FR, GR, Loyalists>>),
           Text(<<FR, Loyalists, HdrUpdates, StatLine("Treasury", 250, FALSE)>>),
           Text(<<HdrUpdates, StatLine("Population", PosInf, FALSE),
                  StatLine("GDP", 10 * Scale, FALSE)>>),
           Text(<<HdrUpdates, StatLine("GDP", 10 * Scale, TRUE),
                  StatLine("Tech Level", NegInf, FALSE)>>),
           Text(<<HdrImpact, StatLine("GDP", 10 * Scale, FALSE), HdrBold,
                  StatLine("Treasury", 250, FALSE)>>),
           Text(<<HdrUpdates, StatLine("GDP", 10 * Scale, FALSE), HdrImpact,
                  StatLine("Treasury", 250, FALSE)>>) }

\* The seeds of a new game (generate_starting_nation's payload).
SeedGdp == {50 * Scale, 1000 * Scale}
SeedPopulation == {1015}
SeedMilitary == {960 * Scale}
SeedStability == {50 * Scale, 100 * Scale}
SeedTech == {1, 4}
SeedNeighbors == [x \in {"Albion"} |-> 100 * Scale]
SeedWorldGdp == [x \in {"Cathay"} |-> 3000 * Scale]
SeedWorldMilitary == [x \in {"Cathay"} |-> 1500 * Scale]
StartYears == {2025}
\* What the player types: a directive, an operation, a cable.
Prompts == {"raise the army"}
\* What a text widget may hold when its handler runs: a text, or nothing.
Typed == Prompts \cup {""}
\* What the model answers to a directive: a report in the mandated format, a
\* loosely compliant one, or an error string.
DirectiveResponses ==
    { Text(<<HdrBold, StatLine("GDP", 10 * Scale, FALSE)>>),
      Text(<<HdrUpdates, StatLine("Public Approval", -30 * Scale, FALSE)>>),
      Text(<<HdrUpdates, StatLine("Ind Level", 1 * Scale, FALSE)>>),
      Text(<<HdrUpdates, StatLine("Treasury", -50 * Scale, TRUE), FR, Loyalists, GR>>),
      Text(<<Noise>>) }
\* What the model answers to the chronicler's prompt.
EventTexts ==
    { Text(<<HdrUpdates, StatLine("GDP", 10 * Scale, FALSE)>>),
      Text(<<HdrUpdates, StatLine("Political Stability", 10 * Scale, FALSE), FR, Loyalists>>),
      Text(<<Noise>>) }
\* The name typed on the new-game form, and the flag of the payload.
CountryInput == "Japan"
SeedFlag == "flag"
SeedBriefing == "briefing"

\* The slider offers 10..100 in steps of 10; these are the positions tried.
Commitments == {50, 100}
\* The pairs (player, enemy) of random.uniform(0.85, 1.15) draws, in hundredths.
Rolls == {<<85, 115>>, <<100, 100>>, <<115, 85>>}

\* --------------------------------------------------- the seed generation
\* A JSON value the AI capability or the archive may hold for a nation: a seed
\* dictionary, a dictionary without "population", a list, a string, or a falsy
\* value ({} or null).  None is what generate_starting_nation returns for a
\* failure.
SeedDict(g, p, m, st, t) ==
    [kind |-> "dict", gdp |-> g, population |-> p, military_strength |-> m,
     political_stability |-> st, tech_level |-> t]
PartialDict == [kind |-> "partial"]
ListValue == [kind |-> "list"]
StrValue == [kind |-> "str"]
FalsyValue == [kind |-> "falsy"]
NoneValue == [kind |-> "none"]

\* historical_archive.json: absent, unreadable (not JSON), or a dictionary.
AbsentArchive == [state |-> "absent", entries |-> <<>>]
UnreadableArchive == [state |-> "unreadable", entries |-> <<>>]
ArchiveOf(entries) == [state |-> "ok", entries |-> entries]

\* The AI capability at seed time: the call raises (unavailable, rate limit),
\* the text is not JSON, or the text is a JSON value.
AiRaises == [kind |-> "raises"]
AiMalformed == [kind |-> "malformed"]
AiValue(v) == [kind |-> "json", value |-> v]

\* AIHandler.generate_starting_nation(country_name, year).  The archive is
\* read before the try: json.load on a file that is not JSON raises out of the
\* method.  An archived entry is returned as it is.  Otherwise the AI
\* capability is asked inside the try: an exception or a text that is not JSON
\* gives None, a falsy value gives None, and any other value is archived and
\* returned.
generate_starting_nation(arch, lookup_key, ai) ==
    IF arch.state = "unreadable" THEN [raised |-> TRUE, value |-> NoneValue, archive |-> arch]
    ELSE IF arch.state = "ok" /\ lookup_key \in DOMAIN arch.entries
        THEN [raised |-> FALSE, value |-> arch.entries[lookup_key], archive |-> arch]
    ELSE IF ai.kind # "json" \/ ai.value.kind = "falsy"
        THEN [raised |-> FALSE, value |-> NoneValue, archive |-> arch]
    ELSE [raised |-> FALSE, value |-> ai.value,
          archive |-> ArchiveOf([k \in (DOMAIN arch.entries) \cup {lookup_key} |->
                                    IF k = lookup_key THEN ai.value ELSE arch.entries[k]])]

\* The values the AI capability may answer with at seed time.
SeedValues ==
    {SeedDict(g, p, m, st, t) : g \in SeedGdp, p \in SeedPopulation, m \in SeedMilitary,
                                st \in SeedStability, t \in SeedTech}
AiAnswers ==
    {AiRaises, AiMalformed}
    \cup {AiValue(v) : v \in SeedValues \cup {PartialDict, ListValue, StrValue, FalsyValue}}

\* Nation("United States", 1980, 226000000, 2859.0, 960.0, 85.0, ...)
FallbackNation ==
    NewNation("United States", 1980, 226000000, 2859 * Scale, 960 * Scale, 85 * Scale,
              "Standard fallback simulation.", "default", {}, <<>>, <<>>, <<>>, "flag", 1, 1,
              "Stone Age", <<>>)

\* The attributes GameEngine.__init__ sets, and the methods class Nation
\* defines: self.ai and nation.display_briefing are read but are not among them.
EngineAttributes == {"nation", "turn_number", "is_running"}
NationMethods == {"gdp_per_capita", "combat_power", "update_era", "execute_war",
                  "process_turn", "record_stats", "add_event", "to_dict", "from_dict"}

\* nation is None.
NoNation == [name |-> "None"]

\* ------------------------------------------------------------ the machine
NoWar == [target |-> "", target_base_strength |-> 0, force_commitment_pct |-> 0,
          result |-> "", player_power |-> 0, enemy_power |-> 0, cost_billions |-> 0]

\* What the last handler run was given and did: crashed, an exception left the
\* handler; asked, the AI capability was called; turn, messages and saved, their
\* values before the run; text, the player's text; notice, the message shown
\* for an input that was turned down, and handler, the handler that did so.
Last(op, report, pre, x, war) ==
    [op |-> op, report |-> report, pre |-> pre, aborted |-> x.aborted,
     coreRaised |-> x.coreRaised, facRan |-> x.facRan, facRaised |-> x.facRaised,
     escaped |-> x.escaped, war |-> war, crashed |-> FALSE, asked |-> FALSE,
     turn |-> turn, messages |-> messages, saved |-> saved, text |-> "", notice |-> "", handler |-> ""]

NoExtract == [aborted |-> FALSE, coreRaised |-> FALSE, facRan |-> FALSE,
              facRaised |-> FALSE, escaped |-> FALSE]

\* st.session_state beside nation, turn and messages: whether a nation is
\* loaded (nation is not None), whether the URL carries the session name, and
\* the diplomacy chat.  engine is "none" in the web application.
Session(active, query, chat) ==
    [active |-> active, query |-> query, diplomacy_chat |-> chat, engine |-> "none"]

\* The Initialize Simulation handler on a seed payload.
InitializeSimulation(g, p, m, st, t, y) ==
    LET n0 == NewNation(CountryInput, y, p, g, m, st, SeedBriefing,
                        <<CountryInput, y>>, {}, SeedWorldGdp, SeedWorldMilitary,
                        <<>>, SeedFlag, 1, t, "Stone Age", SeedNeighbors)
        n1 == record_stats(update_era(n0), y)
        msgs == <<[role |-> "assistant", content |-> <<"INITIAL CABINET REPORT", SeedBriefing>>]>>
    IN [nation |-> n1, turn |-> y, messages |-> msgs, saved |-> save_game(n1, y, msgs)]

Init ==
    \E g \in SeedGdp, p \in SeedPopulation, m \in SeedMilitary, st \in SeedStability,
       t \in SeedTech, y \in StartYears :
        \E i \in {InitializeSimulation(g, p, m, st, t, y)} :
           /\ nation = i.nation
           /\ turn = i.turn
           /\ messages = i.messages
           /\ saved = i.saved
           /\ session = Session(TRUE, TRUE, <<>>)
           /\ last = Last("new", NoneReport, i.nation, NoExtract, NoWar)
           /\ steps = 0
           /\ archive = ArchiveOf([k \in {<<CountryInput, y>>} |-> SeedDict(g, p, m, st, t)])

\* apply_ai_stats(nation, ai_report) on any report.
ApplyAiStats ==
    /\ steps < MaxSteps
    /\ \E report \in Reports :
        \E r \in {apply_ai_stats(nation, report)} :
            /\ r.ok
            /\ nation' = r.n
            /\ last' = Last("apply", report, nation, r, NoWar)
            /\ steps' = steps + 1
            /\ UNCHANGED archive
            /\ UNCHANGED <<turn, messages, saved, session>>

\* The Declare War handler of the Foreign Affairs tab.  execute_war has
\* changed the nation when the call of generate_war_report raises; what
\* follows the call (the removal of a beaten neighbour, the log entries and
\* the autosave) runs only if the method exists.
DeclareWar ==
    /\ steps < MaxSteps
    /\ session.active
    /\ \E target \in AvailableTargets(nation), pct \in Commitments, roll \in Rolls,
          et \in EnemyTechLevels(nation) :
        \E tbs \in {TargetBaseStrength(nation, target)} :
        \E w \in {execute_war(nation, tbs, pct, et, roll[1], roll[2])} :
        \E crashed \in {"generate_war_report" \notin AIHandlerMethods} :
        \E n1 \in {IF w.result = "VICTORY" /\ target \in DOMAIN w.n.regional_neighbors
                   THEN [w.n EXCEPT !.regional_neighbors = RemoveKey(@, target)]
                   ELSE w.n} :
        \E n2 \in {add_event(n1, turn, <<"Waged war against", target, w.result>>)} :
        \E msgs \in {Append(messages, [role |-> "assistant",
                                       content |-> <<"WAR REPORT", target, w.result>>])} :
           /\ w.ok
           /\ nation' = IF crashed THEN w.n ELSE n2
           /\ messages' = IF crashed THEN messages ELSE msgs
           /\ saved' = IF crashed THEN saved ELSE save_game(n2, turn, msgs)
           /\ last' = [Last("war", NoneReport, nation, NoExtract,
                            [target |-> target, target_base_strength |-> tbs,
                             force_commitment_pct |-> pct, result |-> w.result,
                             player_power |-> w.player_power,
                             enemy_power |-> w.enemy_power,
                             cost_billions |-> w.cost_billions])
                       EXCEPT !.crashed = crashed]
           /\ steps' = steps + 1
           /\ UNCHANGED archive
           /\ UNCHANGED <<turn, session>>

\* resolve_internal_stability(nation).
ResolveInternalStability ==
    /\ steps < MaxSteps
    /\ \E r \in {resolve_internal_stability(nation)} :
        /\ r.ok
        /\ nation' = r.n
        /\ last' = Last("stability", NoneReport, nation,
                        [NoExtract EXCEPT !.escaped = r.raised], NoWar)
        /\ steps' = steps + 1
        /\ UNCHANGED archive
        /\ UNCHANGED <<turn, messages, saved, session>>

Next == ApplyAiStats \/ DeclareWar \/ ResolveInternalStability

Spec == Init /\ [][Next]_vars

\* ------------------------------- resolve_internal_stability on its own
\* Nations with a factions attribute: no faction, one or two, with supports on
\* both sides of 40 and 80; stabilities near the ends of [0, 100]; approvals on
\* both sides of 30 and 80.
FactionNames == {"Loyalists", "Unions"}
FactionSupports == {30 * Scale, 40 * Scale, 85 * Scale}
FactionTables ==
    {<<>>} \cup UNION {[d -> FactionSupports] : d \in (SUBSET FactionNames) \ {{}}}
StabilityBefore == {1 * Scale, 50 * Scale, 99 * Scale}
ApprovalBefore == {20 * Scale, 30 * Scale, 50 * Scale, 90 * Scale}

StabilityInit ==
    \E f \in FactionTables, st \in StabilityBefore, ap \in ApprovalBefore :
        \E n \in {[NewNation(CountryInput, 2025, 1015, 40000 * Scale, 960 * Scale, st,
                             SeedBriefing, <<CountryInput, 2025>>, {}, SeedWorldGdp,
                             SeedWorldMilitary, <<>>, SeedFlag, 1, 1, "Stone Age",
                             SeedNeighbors)
                   EXCEPT !.public_approval = ap, !.hasFactions = TRUE, !.factions = f]} :
           /\ nation = n
           /\ turn = 2025
           /\ messages = <<>>
           /\ saved = [present |-> FALSE]
           /\ session = Session(TRUE, TRUE, <<>>)
           /\ last = Last("new", NoneReport, n, NoExtract, NoWar)
           /\ steps = 0
           /\ archive = AbsentArchive

StabilitySpec == StabilityInit /\ [][ResolveInternalStability]_vars

\* ------------------------------------------------- update_era on its own
\* The levels a payload or a save may carry (the extractor keeps them in 1..5),
\* the stabilities on both sides of 40, and <<gdp, population>> pairs whose
\* gdp_per_capita is 40000, 30000, 10000, 550, 500 and 0 (no population).
EraLevels == 0..6
EraStabilities == {30 * Scale, 40 * Scale}
EraEconomies == {<<40 * Scale, 10 ^ 6>>, <<30 * Scale, 10 ^ 6>>, <<10 * Scale, 10 ^ 6>>,
                 <<11 * Scale, 2 * 10 ^ 7>>, <<10 * Scale, 2 * 10 ^ 7>>, <<10 * Scale, 0>>}
EraBefore == {"Stone Age", "Space Age"}

EraInit ==
    \E t \in EraLevels, i \in EraLevels, st \in EraStabilities, e \in EraEconomies,
       era \in EraBefore :
        \E n \in {NewNation(CountryInput, 2025, e[2], e[1], 960 * Scale, st, SeedBriefing,
                            <<CountryInput, 2025>>, {}, SeedWorldGdp, SeedWorldMilitary,
                            <<>>, SeedFlag, i, t, era, SeedNeighbors)} :
           /\ nation = n
           /\ turn = 2025
           /\ messages = <<>>
           /\ saved = [present |-> FALSE]
           /\ session = Session(TRUE, TRUE, <<>>)
           /\ last = Last("new", NoneReport, n, NoExtract, NoWar)
           /\ steps = 0
           /\ archive = AbsentArchive

\* nation.update_era()
UpdateEra ==
    /\ steps < MaxSteps
    /\ nation' = update_era(nation)
    /\ last' = Last("era", NoneReport, nation, NoExtract, NoWar)
    /\ steps' = steps + 1
    /\ UNCHANGED archive
    /\ UNCHANGED <<turn, messages, saved, session>>

EraSpec == EraInit /\ [][UpdateEra]_vars

\* -------------------------------------------------------- the web handlers
\* A handler that turns its input down: at most a notice is shown.
Rejected(handler, notice) ==
    /\ last' = [Last("rejected", NoneReport, nation, NoExtract, NoWar)
                EXCEPT !.notice = notice, !.handler = handler]
    /\ steps' = steps + 1
    /\ UNCHANGED archive
    /\ UNCHANGED <<nation, turn, messages, saved, session>>

\* The End Turn button.
EndTurn ==
    /\ steps < MaxSteps
    /\ session.active
    /\ \E answer \in EventTexts :
        \E ev \in {trigger_historical_event(nation, turn, answer)} :
        \E msgs \in {IF Truthy(ev.event)
                     THEN Append(messages, [role |-> "assistant",
                                            content |-> <<"GLOBAL EVENT", turn, ev.event>>])
                     ELSE messages} :
        \E n1 \in {record_stats(process_turn(nation), turn + 1)} :
           /\ turn' = turn + 1
           /\ nation' = n1
           /\ messages' = msgs
           /\ saved' = save_game(n1, turn + 1, msgs)
           /\ last' = [Last("endturn", ev.event, nation, NoExtract, NoWar)
                       EXCEPT !.asked = ev.asked]
           /\ steps' = steps + 1
           /\ UNCHANGED archive
           /\ UNCHANGED session

\* The chat input: a directive.  Without a text the body is skipped.  The
\* prompt joins the messages first; when parse_directive raises, nothing after
\* it runs.
Directive ==
    /\ steps < MaxSteps
    /\ session.active
    /\ \E prompt \in Typed, answer \in DirectiveResponses :
        IF prompt = "" THEN Rejected("directive", "") ELSE
        \E msgs1 \in {Append(messages, [role |-> "user", content |-> prompt])} :
        \E response \in {parse_directive(nation, answer)} :
        \E r \in {apply_ai_stats(nation, response.text)} :
        \E n2 \in {add_event(r.n, turn, prompt)} :
        \E msgs2 \in {Append(msgs1, [role |-> "assistant", content |-> response.text])} :
           /\ response.raised \/ r.ok
           /\ nation' = IF response.raised THEN nation ELSE n2
           /\ messages' = IF response.raised THEN msgs1 ELSE msgs2
           /\ saved' = IF response.raised THEN saved ELSE save_game(n2, turn, msgs2)
           /\ last' = [Last("directive", response.text, nation,
                            IF response.raised THEN NoExtract ELSE r, NoWar)
                       EXCEPT !.crashed = response.raised, !.asked = ~response.raised,
                              !.text = prompt]
           /\ steps' = steps + 1
           /\ UNCHANGED archive
           /\ UNCHANGED <<turn, session>>

\* Execute Operation Blacklight, with operation directives typed in.
Espionage ==
    /\ steps < MaxSteps
    /\ session.active
    /\ \E target \in AvailableTargets(nation), op_details \in Typed,
          answer \in {Text(<<Noise>>)} :
        IF op_details = ""
        THEN Rejected("espionage", "Please provide operation directives before executing.") ELSE
        \E report \in {run_espionage(nation, answer)} :
        \E msgs \in {Append(messages, [role |-> "assistant",
                                       content |-> <<"OPERATION REPORT", target, report.text>>])} :
        \E n1 \in {add_event(nation, turn, <<"[CLASSIFIED] Op against", target, op_details>>)} :
           /\ nation' = IF report.raised THEN nation ELSE n1
           /\ messages' = IF report.raised THEN messages ELSE msgs
           /\ saved' = IF report.raised THEN saved ELSE save_game(n1, turn, msgs)
           /\ last' = [Last("espionage", NoneReport, nation, NoExtract, NoWar)
                       EXCEPT !.crashed = report.raised, !.asked = ~report.raised,
                              !.text = op_details]
           /\ steps' = steps + 1
           /\ UNCHANGED archive
           /\ UNCHANGED <<turn, session>>

\* Send Diplomatic Cable, with a message typed in.
Diplomacy ==
    /\ steps < MaxSteps
    /\ session.active
    /\ \E target \in AvailableTargets(nation), diplomatic_message \in Typed :
        IF diplomatic_message = ""
        THEN Rejected("diplomacy", "Cannot send an empty cable.") ELSE
        \E delegate_response \in {negotiate(target, diplomatic_message,
                                            session.diplomacy_chat)} :
        \E chat \in {session.diplomacy_chat
                       \o <<<<"Supreme Leader", diplomatic_message>>,
                            <<target, delegate_response>>>>} :
        \E msgs \in {messages
                       \o <<[role |-> "user",
                             content |-> <<"Diplomatic Cable to", target, diplomatic_message>>],
                            [role |-> "assistant",
                             content |-> <<target, delegate_response>>]>>} :
        \E n1 \in {add_event(nation, turn, <<"Diplomatic exchange with", target>>)} :
           /\ nation' = n1
           /\ messages' = msgs
           /\ session' = [session EXCEPT !.diplomacy_chat = chat]
           /\ saved' = save_game(n1, turn, msgs)
           /\ last' = [Last("diplomacy", NoneReport, nation, NoExtract, NoWar)
                       EXCEPT !.asked = TRUE, !.text = diplomatic_message]
           /\ steps' = steps + 1
           /\ UNCHANGED archive
           /\ UNCHANGED turn

\* The Manual Save button.
ManualSave ==
    /\ steps < MaxSteps
    /\ session.active
    /\ saved' = save_game(nation, turn, messages)
    /\ last' = Last("save", NoneReport, nation, NoExtract, NoWar)
    /\ steps' = steps + 1
    /\ UNCHANGED archive
    /\ UNCHANGED <<nation, turn, messages, session>>

\* The sidebar's load button on the save slot: no update_era.
SidebarLoad ==
    /\ steps < MaxSteps
    /\ session.active
    /\ saved.present
    /\ nation' = from_dict(saved.nation)
    /\ turn' = saved.turn_number
    /\ messages' = Get(saved, "messages", <<>>)
    /\ session' = [session EXCEPT !.query = TRUE]
    /\ last' = Last("sideload", NoneReport, nation, NoExtract, NoWar)
    /\ steps' = steps + 1
    /\ UNCHANGED archive
    /\ UNCHANGED saved

\* A browser refresh: the session state is new, the URL still names the
\* session, and the recovery block restores the save.
Recover ==
    /\ steps < MaxSteps
    /\ session.query
    /\ saved.present
    /\ nation' = update_era(from_dict(saved.nation))
    /\ turn' = saved.turn_number
    /\ messages' = Get(saved, "messages", <<>>)
    /\ session' = Session(TRUE, TRUE, <<>>)
    /\ last' = Last("recover", NoneReport, nation, NoExtract, NoWar)
    /\ steps' = steps + 1
    /\ UNCHANGED archive
    /\ UNCHANGED saved

\* Resign & Return to Main Menu.  nation is None from here: the variable keeps
\* its last value, which nothing reads while session.active is false.
Resign ==
    /\ steps < MaxSteps
    /\ session.active
    /\ session' = Session(FALSE, FALSE, <<>>)
    /\ turn' = 1
    /\ messages' = <<>>
    /\ last' = Last("resign", NoneReport, nation, NoExtract, NoWar)
    /\ steps' = steps + 1
    /\ UNCHANGED archive
    /\ UNCHANGED <<nation, saved>>

\* The main menu's load button on the save slot.
MainMenuLoad ==
    /\ steps < MaxSteps
    /\ ~session.active
    /\ session.engine = "none"
    /\ saved.present
    /\ nation' = update_era(from_dict(saved.nation))
    /\ turn' = saved.turn_number
    /\ messages' = Get(saved, "messages", <<>>)
    /\ session' = [session EXCEPT !.active = TRUE, !.query = TRUE]
    /\ last' = Last("menuload", NoneReport, nation, NoExtract, NoWar)
    /\ steps' = steps + 1
    /\ UNCHANGED archive
    /\ UNCHANGED saved

\* Initialize Simulation from the main menu.  A dictionary makes the nation
\* (a KeyError leaves the handler when it lacks a key); a string or any other
\* value is reported and no nation is made.
NewGame ==
    /\ steps < MaxSteps
    /\ ~session.active
    /\ session.engine = "none"
    /\ \E y \in StartYears, ai \in AiAnswers :
        \E r \in {generate_starting_nation(archive, <<CountryInput, y>>, ai)} :
        \E made \in {~r.raised /\ r.value.kind = "dict"} :
        \E i \in {IF made
                  THEN InitializeSimulation(r.value.gdp, r.value.population,
                                            r.value.military_strength,
                                            r.value.political_stability,
                                            r.value.tech_level, y)
                  ELSE [nation |-> nation, turn |-> turn, messages |-> messages,
                        saved |-> saved]} :
           /\ nation' = i.nation
           /\ turn' = i.turn
           /\ messages' = i.messages
           /\ saved' = i.saved
           /\ session' = IF made THEN [session EXCEPT !.active = TRUE, !.query = TRUE]
                         ELSE session
           /\ archive' = r.archive
           /\ last' = [Last("new", NoneReport, i.nation, NoExtract, NoWar)
                       EXCEPT !.crashed = r.raised \/ r.value.kind = "partial",
                              !.asked = archive.state # "unreadable"
                                        /\ ~(archive.state = "ok"
                                             /\ <<CountryInput, y>> \in DOMAIN archive.entries),
                              !.text = <<archive.state, ai.kind, r.value.kind>>,
                              !.notice = IF r.raised \/ r.value.kind \in {"dict", "partial"}
                                         THEN "" ELSE "COMMUNICATIONS FAILURE",
                              !.handler = "Initialize Simulation"]
           /\ steps' = steps + 1

\* start_game without 'load': create_dynamic_nation makes the nation from a
\* truthy value (an exception leaves it when the value is no seed dictionary)
\* or falls back to the default one, and start_game then calls
\* display_briefing on it before it builds the engine.
CliNewGame ==
    /\ steps < MaxSteps
    /\ session.engine = "start"
    /\ \E y \in StartYears, ai \in AiAnswers :
        \E r \in {generate_starting_nation(archive, <<CountryInput, y>>, ai)} :
        \E made \in {~r.raised /\ r.value.kind = "dict"} :
        \E fallback \in {~r.raised /\ r.value.kind \in {"none"}} :
        \E n \in {IF made
                  THEN NewNation(CountryInput, y, r.value.population, r.value.gdp,
                                 r.value.military_strength, r.value.political_stability,
                                 SeedBriefing, "default", {}, <<>>, <<>>, <<>>, "flag", 1, 1,
                                 "Stone Age", <<>>)
                  ELSE IF fallback THEN FallbackNation ELSE nation} :
           /\ nation' = n
           /\ turn' = IF made \/ fallback THEN n.starting_year ELSE turn
           /\ session' = [session EXCEPT !.engine =
                             IF (made \/ fallback) /\ "display_briefing" \in NationMethods
                             THEN "running" ELSE "dead"]
           /\ archive' = r.archive
           /\ last' = [Last("new", NoneReport, n, NoExtract, NoWar)
                       EXCEPT !.crashed = ~(made \/ fallback)
                                           \/ "display_briefing" \notin NationMethods,
                              !.asked = archive.state # "unreadable"
                                        /\ ~(archive.state = "ok"
                                             /\ <<CountryInput, y>> \in DOMAIN archive.entries),
                              !.text = <<archive.state, ai.kind, r.value.kind>>,
                              !.notice = IF fallback THEN "Failed to generate nation." ELSE "",
                              !.handler = "create_dynamic_nation"]
           /\ steps' = steps + 1
           /\ UNCHANGED <<messages, saved>>

\* The archives a program may find when it starts.
Archives ==
    {AbsentArchive, UnreadableArchive, ArchiveOf(<<>>)}
    \cup {ArchiveOf([k \in {<<CountryInput, y>>} |-> v]) :
              y \in StartYears,
              v \in {SeedDict(50 * Scale, 1015, 960 * Scale, 50 * Scale, 1), PartialDict,
                     StrValue}}

\* A program starts: the web application shows its main menu (nation None,
\* turn 1, no messages), the command-line game asks for a nation.
SeedInit ==
    \E a \in Archives, engine \in {"none", "start"} :
       /\ nation = NoNation
       /\ turn = 1
       /\ messages = <<>>
       /\ saved = [present |-> FALSE]
       /\ session = [Session(FALSE, FALSE, <<>>) EXCEPT !.engine = engine]
       /\ last = [Last("start", NoneReport, NoNation, NoExtract, NoWar)
                  EXCEPT !.turn = 1, !.messages = <<>>, !.saved = [present |-> FALSE]]
       /\ steps = 0
       /\ archive = a

SeedNext == NewGame \/ CliNewGame

SeedSpec == SeedInit /\ [][SeedNext]_vars

AppNext ==
    \/ EndTurn
    \/ Directive
    \/ DeclareWar
    \/ Espionage
    \/ Diplomacy
    \/ ManualSave
    \/ SidebarLoad
    \/ Recover
    \/ Resign
    \/ MainMenuLoad
    \/ NewGame

AppSpec == Init /\ [][AppNext]_vars

\* ------------------------------------------------- the command-line game
\* str.lower() on the words that are typed.
Lower(w) == CASE w = "COVERT" -> "covert" [] w = "Exit" -> "exit" [] OTHER -> w
LowerAll(ws) == [i \in DOMAIN ws |-> Lower(ws[i])]

\* Nation("Load", 1, 1, 1, 1, 1), the nation start_game boots the engine with.
DummyNation ==
    NewNation("Load", 1, 1, 1 * Scale, 1 * Scale, 1 * Scale, "", "default", {}, <<>>, <<>>,
              <<>>, "flag", 1, 1, "Stone Age", <<>>)

\* What process_command leaves: the engine's nation and turn, the save file,
\* is_running, and whether an exception left the method, whether the AI
\* capability was called, and the notice printed for a command turned down.
CliResult(n, t, sv, running, raised, asked, notice) ==
    [n |-> n, t |-> t, sv |-> sv, running |-> running, raised |-> raised,
     asked |-> asked, notice |-> notice]

\* The 'end turn' branch; extracted is the nation apply_ai_stats leaves when
\* given the AI capability's answer.
CliEndTurn(n, t, sv, answer, extracted) ==
    IF "ai" \notin EngineAttributes THEN CliResult(n, t, sv, TRUE, TRUE, FALSE, "")
    ELSE LET ev == trigger_historical_event(n, t, answer)
             n1 == IF Truthy(ev.event) THEN extracted ELSE n
         IN CliResult(process_turn(n1), t + 1, sv, TRUE, FALSE, ev.asked, "")

\* The diplomacy sub-loop on the lines typed: 'exit' logs the meeting and
\* leaves, an empty line is skipped, any other line goes to the delegate.
RECURSIVE DiplomacyLoop(_, _, _, _, _, _)
DiplomacyLoop(n, t, sv, target, typed, asked) ==
    IF typed = <<>> THEN CliResult(n, t, sv, TRUE, FALSE, asked, "")
    ELSE IF Lower(Head(typed)) = "exit"
        THEN CliResult(add_event(n, t, <<"Held diplomatic negotiations with", target>>),
                       t, sv, TRUE, FALSE, asked, "")
    ELSE IF Head(typed) = "" THEN DiplomacyLoop(n, t, sv, target, Tail(typed), asked)
    ELSE IF "ai" \notin EngineAttributes THEN CliResult(n, t, sv, TRUE, TRUE, asked, "")
    ELSE DiplomacyLoop(n, t, sv, target, Tail(typed), TRUE)

\* The position of the first "-" among the words, 0 when there is none.
DashAt(ws) ==
    IF \E i \in 1..Len(ws) : ws[i] = "-"
    THEN CHOOSE i \in 1..Len(ws) : ws[i] = "-" /\ \A j \in 1..(i - 1) : ws[j] # "-"
    ELSE 0

\* A covert branch that logs the operation before it reads the parts.
CliCovertLogsFirst(n, t, sv, command, answer) ==
    IF DashAt(Tail(command)) = 0
    THEN CliResult(add_event(n, t, <<"[CLASSIFIED] Conducted covert op against", Tail(command)>>),
                   t, sv, TRUE, FALSE, FALSE, "Invalid covert command format.")
    ELSE CliResult(n, t, sv, TRUE, TRUE, FALSE, "")

\* The 'covert ' branch: command.split(" ", 1)[1].split("-", 1); without a
\* "-" parts[1] raises IndexError, which the branch catches.
CliCovert(n, t, sv, command, answer) ==
    LET rest == Tail(command)
        d == DashAt(rest)
        target_nation == SubSeq(rest, 1, d - 1)
        operation_details == SubSeq(rest, d + 1, Len(rest))
    IN IF d = 0
       THEN CliResult(n, t, sv, TRUE, FALSE, FALSE, "Invalid covert command format.")
       ELSE IF "ai" \notin EngineAttributes THEN CliResult(n, t, sv, TRUE, TRUE, FALSE, "")
       ELSE IF run_espionage(n, answer).raised THEN CliResult(n, t, sv, TRUE, TRUE, TRUE, "")
       ELSE CliResult(add_event(n, t, <<"[CLASSIFIED] Conducted covert op against",
                                        target_nation, operation_details>>),
                      t, sv, TRUE, FALSE, TRUE, "")

\* The 'save' branch: turn_number and nation, no messages.
CliSave(n, t, sv) ==
    CliResult(n, t, [present |-> TRUE, turn_number |-> t, nation |-> to_dict(n)],
              TRUE, FALSE, FALSE, "")

\* The 'load' branch on the slot number typed: the nation is replaced before
\* display_briefing is called on it.
CliLoad(n, t, sv, typed) ==
    IF ~sv.present THEN CliResult(n, t, sv, TRUE, FALSE, FALSE, "No save directory found.")
    ELSE IF typed = <<>> \/ Head(typed) # "1"
        THEN CliResult(n, t, sv, TRUE, FALSE, FALSE, "Invalid selection.")
    ELSE CliResult(from_dict(sv.nation), sv.turn_number, sv, TRUE,
                   "display_briefing" \notin NationMethods, FALSE, "")

\* The last branch: any other text is a directive.
CliDirective(n, t, sv, command, answer, extracted) ==
    IF "ai" \notin EngineAttributes THEN CliResult(n, t, sv, TRUE, TRUE, FALSE, "")
    ELSE IF parse_directive(n, answer).raised THEN CliResult(n, t, sv, TRUE, TRUE, TRUE, "")
    ELSE CliResult(add_event(extracted, t, command), t, sv, TRUE, FALSE, TRUE, "")

\* GameEngine.process_command(command) on a command that is not empty.
process_command(n, t, sv, command, typed, answer, extracted) ==
    LET lower_command == LowerAll(command) IN
    IF lower_command = <<"end", "turn">> THEN CliEndTurn(n, t, sv, answer, extracted)
    ELSE IF Len(command) >= 2 /\ lower_command[1] = "diplomacy"
        THEN DiplomacyLoop(n, t, sv, Tail(command), typed, FALSE)
    ELSE IF lower_command \in {<<"status">>, <<"report">>}
        THEN CliResult(n, t, sv, TRUE, "display_briefing" \notin NationMethods, FALSE, "")
    ELSE IF Len(command) >= 2 /\ lower_command[1] = "covert"
        THEN CliCovert(n, t, sv, command, answer)
    ELSE IF lower_command = <<"save">> THEN CliSave(n, t, sv)
    ELSE IF lower_command = <<"load">> THEN CliLoad(n, t, sv, typed)
    ELSE IF lower_command = <<"help">> THEN CliResult(n, t, sv, TRUE, FALSE, FALSE, "")
    ELSE IF lower_command = <<"quit">> THEN CliResult(n, t, sv, FALSE, FALSE, FALSE, "")
    ELSE CliDirective(n, t, sv, command, answer, extracted)

\* The commands typed at the prompt, and the lines typed inside a command.
CliCommands ==
    { <<>>, <<"end", "turn">>, <<"status">>, <<"help">>, <<"quit">>, <<"save">>, <<"load">>,
      <<"diplomacy", "Albion">>,
      <<"covert">>, <<"covert", "Albion">>, <<"COVERT", "Albion", "sabotage", "the", "docks">>,
      <<"covert", "Albion", "-", "sabotage", "the", "docks">>,
      <<"raise", "the", "army">> }
CliTyped == { <<>>, <<"1">>, <<"Exit">>, <<"", "exit">>, <<"hello", "exit">> }

\* The lines a command reads: a slot number for load, messages for diplomacy.
TypedFor(command) ==
    IF command = <<"load">> THEN {<<"1">>, <<"x">>}
    ELSE IF Len(command) >= 2 /\ Lower(command[1]) = "diplomacy" THEN CliTyped \ {<<>>, <<"1">>}
    ELSE {<<>>}

\* start_game with 'load' typed: the engine is built on the dummy nation and
\* process_command("load") finds no save, or a slot number that is no choice.
\* The save folder is the web application's: empty, or holding a new game.
CliInit ==
    \E sv \in {[present |-> FALSE]} \cup
              {InitializeSimulation(g, 1015, 960 * Scale, 50 * Scale, t, 2025).saved :
                   g \in SeedGdp, t \in SeedTech} :
       /\ nation = DummyNation
       /\ turn = 1
       /\ messages = <<>>
       /\ saved = sv
       /\ session = [Session(FALSE, FALSE, <<>>) EXCEPT !.engine = "running"]
       /\ last = [Last("boot", NoneReport, DummyNation, NoExtract, NoWar)
                  EXCEPT !.turn = 1, !.messages = <<>>, !.saved = sv]
       /\ steps = 0
       /\ archive = AbsentArchive

\* One round of GameEngine.run: a line is read; an empty one is skipped, any
\* other goes to process_command.  An exception that leaves it ends the
\* process; quit ends the loop.
CliCommand ==
    /\ steps < MaxSteps
    /\ session.engine = "running"
    /\ \E command \in CliCommands, answer \in {Text(<<Noise>>)} :
       \E typed \in TypedFor(command) :
        IF command = <<>> THEN
            /\ last' = [Last("rejected", NoneReport, nation, NoExtract, NoWar)
                        EXCEPT !.text = command, !.handler = "directive"]
            /\ steps' = steps + 1
            /\ UNCHANGED archive
            /\ UNCHANGED <<nation, turn, messages, saved, session>>
        ELSE
          \E extracted \in {IF "ai" \in EngineAttributes
                             THEN apply_ai_stats(nation, answer).n ELSE nation} :
          \E r \in {process_command(nation, turn, saved, command, typed, answer,
                                      extracted)} :
            /\ nation' = r.n
            /\ turn' = r.t
            /\ saved' = r.sv
            /\ session' = [session EXCEPT !.engine = IF r.raised THEN "dead"
                                                     ELSE IF r.running THEN "running"
                                                     ELSE "stopped"]
            /\ last' = [Last(IF r.notice # "" THEN "rejected" ELSE "command", NoneReport,
                             nation, NoExtract, NoWar)
                        EXCEPT !.text = command, !.crashed = r.raised, !.asked = r.asked,
                               !.notice = r.notice, !.report = Text(typed),
                               !.handler = Lower(command[1])]
            /\ steps' = steps + 1
            /\ UNCHANGED archive
            /\ UNCHANGED messages

CliSpec == CliInit /\ [][CliCommand]_vars

\* Both programs of the repository: the web application and the command-line
\* game.
ProgramInit == Init \/ CliInit
ProgramNext == AppNext \/ CliCommand
ProgramSpec == ProgramInit /\ [][ProgramNext]_vars

\* ------------------------------------------------------------- properties
\* The numeric fields of a nation, and its faction scores.
CoreFields(n) ==
    <<n.gdp, n.treasury, n.population, n.military_strength, n.political_stability,
      n.public_approval, n.tech_level, n.industrialization_level>>
FactionScores(n) == <<n.hasFactions, n.factions>>
Untouched == CoreFields(nation) = CoreFields(last.pre)
             /\ FactionScores(nation) = FactionScores(last.pre)

\* The report of the last extractor call, when it is a text.
LastText == last.op = "apply" /\ last.report.kind = "text"
LastToks == last.report.toks
\* The faction lines the second phase of the last call matched.
LastFactionLines ==
    IF LastText /\ HasTok(LastToks, {"fr"})
    THEN FactionMatches(FactionsSection(LastToks)) ELSE <<>>

\* C1: in every reachable state political_stability and public_approval lie
\* in [0, 100].
C1_StabilityApprovalInRange ==
    /\ nation.political_stability >= 0
    /\ nation.political_stability <= 100 * Scale
    /\ nation.public_approval >= 0
    /\ nation.public_approval <= 100 * Scale

\* C2: after apply_ai_stats has applied a tech or industrialization delta,
\* tech_level and industrialization_level are integers in 1..5.
C2_LevelsInRange ==
    last.op = "apply" =>
        /\ nation.tech_level \in 1..5
        /\ nation.industrialization_level \in 1..5

\* A delta of -7 on tech level 4 is held at 1.
C2_Witness ==
    /\ last.op = "apply"
    /\ last.report = Text(<<HdrUpdates, StatLine("Tech Level", -7 * Scale, FALSE)>>)
    /\ last.pre.tech_level = 4
    /\ nation.tech_level = 1

\* C3 (as claimed): a text without a "Statistical Impact" / "Statistical
\* Updates" header leaves every numeric field and faction score unchanged.
C3_NoHeaderNoChange ==
    LastText /\ ~HasHeader(LastToks) => Untouched

\* C3 (amended): a text that does not hold the substring "Statistic" leaves
\* every numeric field and faction score unchanged.
C3_NoStatisticNoChange ==
    LastText /\ ~HasStatistic(LastToks) => Untouched

\* A stat line after prose without the word is not applied.
C3_Witness ==
    /\ last.op = "apply"
    /\ last.report = Text(<<Noise, StatLine("GDP", 10 * Scale, FALSE)>>)
    /\ last.aborted
    /\ nation.gdp = last.pre.gdp

\* C4: apply_ai_stats never lets an exception reach its caller.
C4_NeverRaises == last.op = "apply" => ~last.escaped

\* Both phases raised on the same report and the call still returned.
C4_Witness ==
    /\ last.op = "apply"
    /\ last.coreRaised
    /\ last.facRaised
    /\ ~last.escaped

\* C5: when the core phase raises, the faction phase still runs and applies
\* its support changes; when the faction phase raises, the core changes made
\* before it are kept.
C5_PhasesFaultIsolated ==
    last.op = "apply" =>
        /\ (last.coreRaised /\ LastFactionLines # <<>> =>
                /\ last.facRan
                /\ nation.hasFactions
                /\ \A i \in 1..Len(LastFactionLines) :
                       LastFactionLines[i].label \in DOMAIN nation.factions)
        /\ (last.facRaised =>
                CoreFields(nation) = CoreFields(CoreTry(last.pre, LastToks).n))

\* The last call was on a report of one header and one finite stat line whose
\* label dispatches to gdp, treasury, population or military.
C6_Line == LastToks[2]
C6_Case ==
    /\ LastText
    /\ Len(LastToks) = 2
    /\ LastToks[1].t \in {"hdrBold", "hdrImpact", "hdrUpdates"}
    /\ C6_Line.t = "stat"
    /\ ~IsInf(C6_Line.value)
    /\ Dispatch(C6_Line.label) \in {"gdp", "treasury", "population", "military"}
C6_Field(n) ==
    CASE Dispatch(C6_Line.label) = "gdp" -> n.gdp
      [] Dispatch(C6_Line.label) = "treasury" -> n.treasury
      [] Dispatch(C6_Line.label) = "population" -> n.population
      [] Dispatch(C6_Line.label) = "military" -> n.military_strength
\* The value of the line in the unit of the field: 1/Scale for the floats,
\* persons for the population.
C6_Unit == IF Dispatch(C6_Line.label) = "population" THEN Scale ELSE 1
C6_Examples ==
    /\ (/\ last.op = "apply"
        /\ last.report = Text(<<HdrUpdates, StatLine("GDP", 10 * Scale, TRUE)>>)
        /\ last.pre.gdp = 50 * Scale) => nation.gdp = 55 * Scale
    /\ (/\ last.op = "apply"
        /\ last.report = Text(<<HdrUpdates, StatLine("GDP", 10 * Scale, FALSE)>>)
        /\ last.pre.gdp = 50 * Scale) => nation.gdp = 60 * Scale

\* C6 (as claimed): a value with a percent sign changes the field by exactly
\* current * value / 100 and a value without one by exactly the value, for
\* gdp, treasury, population and military alike.
C6_PercentOrRawExact ==
    /\ C6_Case =>
         IF C6_Line.pct
         THEN /\ WholeMulDiv(C6_Field(last.pre), C6_Line.value, 100 * Scale)
              /\ (C6_Field(nation) - C6_Field(last.pre)) * (100 * Scale)
                     = C6_Field(last.pre) * C6_Line.value
         ELSE (C6_Field(nation) - C6_Field(last.pre)) * C6_Unit = C6_Line.value
    /\ C6_Examples

\* C6 (amended): as claimed for gdp, treasury and military; for population
\* the change is that amount truncated toward zero to a whole number.
C6_PercentOrRawTruncated ==
    /\ C6_Case =>
         IF Dispatch(C6_Line.label) = "population"
         THEN C6_Field(nation) - C6_Field(last.pre) =
                 IF C6_Line.pct
                 THEN TruncMulDiv(C6_Field(last.pre), C6_Line.value, 100 * Scale)
                 ELSE TruncDiv(C6_Line.value, Scale)
         ELSE IF C6_Line.pct
         THEN /\ WholeMulDiv(C6_Field(last.pre), C6_Line.value, 100 * Scale)
              /\ C6_Field(nation) - C6_Field(last.pre)
                     = TruncMulDiv(C6_Field(last.pre), C6_Line.value, 100 * Scale)
         ELSE C6_Field(nation) - C6_Field(last.pre) = C6_Line.value
    /\ C6_Examples

\* +1.5% of 1015 people is 15.225 people: 15 are added.
C6_Witness ==
    /\ last.op = "apply"
    /\ last.report = Text(<<HdrUpdates, StatLine("Population", 150, TRUE)>>)
    /\ last.pre.population = 1015
    /\ nation.population = 1030

\* C7: a faction line for a faction the nation does not have creates it at
\* 50.0 and adds the value, clamped to [0, 100]; "Loyalists ... (Support
\* Change: +15)" gives factions["Loyalists"] = 65.0.
C7_LazyFactionCreation ==
    /\ \A i \in 1..Len(LastFactionLines) :
         (/\ LastFactionLines[i].label \notin DOMAIN last.pre.factions
          /\ \A j \in 1..Len(LastFactionLines) :
                 LastFactionLines[j].label = LastFactionLines[i].label => j = i)
         => /\ nation.hasFactions
            /\ LastFactionLines[i].label \in DOMAIN nation.factions
            /\ nation.factions[LastFactionLines[i].label] =
                   Clamp(0, 100 * Scale, 50 * Scale + LastFactionLines[i].value)
    /\ (last.op = "apply" /\ last.report = Text(<<HdrUpdates, FR, Loyalists>>))
         => /\ nation.hasFactions
            /\ "Loyalists" \in DOMAIN nation.factions
            /\ nation.factions["Loyalists"] = 65 * Scale

\* C8: a war takes exactly gdp * commitment / 200 off the treasury, of the gdp
\* before the war, whatever its result; cost_billions is that amount
\* (commitment 50 on gdp 1000 takes 250).
C8_WarCost ==
    last.op = "war" =>
        /\ 200 * (last.pre.treasury - nation.treasury)
               = last.pre.gdp * last.war.force_commitment_pct
        /\ last.war.cost_billions = last.pre.treasury - nation.treasury
        /\ (last.pre.gdp = 1000 * Scale /\ last.war.force_commitment_pct = 50
               => last.pre.treasury - nation.treasury = 250 * Scale)

\* A victory that raised the gdp, paid for from the gdp before it.
C8_Witness ==
    /\ last.op = "war"
    /\ last.war.result = "VICTORY"
    /\ last.pre.gdp = 1000 * Scale
    /\ last.war.force_commitment_pct = 50
    /\ nation.gdp > last.pre.gdp
    /\ nation.treasury = last.pre.treasury - 250 * Scale

\* C9: on VICTORY gdp rises by 0.5 * target_base_strength, population by
\* int(10000 * target_base_strength), military_strength falls by 5% of itself,
\* political_stability rises by 5 and public_approval by 10.
C9_VictoryEffects ==
    last.op = "war" /\ last.war.result = "VICTORY" =>
        /\ 2 * (nation.gdp - last.pre.gdp) = last.war.target_base_strength
        /\ Scale * (nation.population - last.pre.population)
               <= 10000 * last.war.target_base_strength
        /\ 10000 * last.war.target_base_strength
               < Scale * (nation.population - last.pre.population + 1)
        /\ 100 * (last.pre.military_strength - nation.military_strength)
               = 5 * last.pre.military_strength
        /\ nation.political_stability = last.pre.political_stability + 5 * Scale
        /\ nation.public_approval = last.pre.public_approval + 10 * Scale

\* A victory over the neighbour of strength 100.
C9_Witness ==
    /\ last.op = "war"
    /\ last.war.result = "VICTORY"
    /\ last.war.target_base_strength = 100 * Scale
    /\ nation.gdp = last.pre.gdp + 50 * Scale
    /\ nation.population = last.pre.population + 1000000

\* C10: on DEFEAT military_strength falls by military_strength *
\* (commitment / 100) * 0.5, political_stability by 15 and public_approval by
\* 20, and gdp, population and regional_neighbors stay as they were.
C10_DefeatEffects ==
    last.op = "war" /\ last.war.result = "DEFEAT" =>
        /\ 200 * (last.pre.military_strength - nation.military_strength)
               = last.pre.military_strength * last.war.force_commitment_pct
        /\ nation.political_stability = last.pre.political_stability - 15 * Scale
        /\ nation.public_approval = last.pre.public_approval - 20 * Scale
        /\ nation.gdp = last.pre.gdp
        /\ nation.population = last.pre.population
        /\ nation.regional_neighbors = last.pre.regional_neighbors

\* A lost war against a regional neighbour, who stays on the map.
C10_Witness ==
    /\ last.op = "war"
    /\ last.war.result = "DEFEAT"
    /\ last.war.target \in DOMAIN last.pre.regional_neighbors
    /\ last.war.target \in DOMAIN nation.regional_neighbors
    /\ nation.military_strength < last.pre.military_strength

\* --------------------------------------------------- the handlers' effects
\* C11: after a declared war on a target that is a key of regional_neighbors,
\* the target is removed from regional_neighbors exactly when the result is
\* VICTORY, the mapping is unchanged on DEFEAT, and no other entry is removed.
C11_NeighborRemovedOnVictory ==
    /\ session.active
    /\ last.op = "war"
    /\ last.war.target \in DOMAIN last.pre.regional_neighbors
    => /\ last.war.result = "VICTORY" =>
            nation.regional_neighbors = RemoveKey(last.pre.regional_neighbors, last.war.target)
       /\ last.war.result = "DEFEAT" =>
            nation.regional_neighbors = last.pre.regional_neighbors
       /\ \A k \in DOMAIN last.pre.regional_neighbors \ {last.war.target} :
            k \in DOMAIN nation.regional_neighbors

\* The eight ages, and gdp_per_capita of a nation whose population is a whole
\* number of millions: gdp * 1e9 / population, 0 without population.
C12_Ages == <<"Space Age", "Cyber Age", "Industrialization Age", "Steel Age",
              "Iron Age", "Mythic Age", "Bronze Age", "Stone Age">>
C12_GdpPerCapita(n) ==
    IF n.population <= 0 THEN 0
    ELSE (n.gdp * 1000) \div ((n.population \div 10 ^ 6) * Scale)
C12_Rule(n, i) ==
    CASE i = 1 -> n.tech_level = 5 /\ n.industrialization_level = 5
                  /\ C12_GdpPerCapita(n) > 30000
      [] i = 2 -> n.tech_level >= 5 /\ n.industrialization_level >= 4
      [] i = 3 -> n.tech_level >= 4 /\ n.industrialization_level >= 3
      [] i = 4 -> n.tech_level >= 3 /\ n.industrialization_level >= 2
      [] i = 5 -> n.tech_level >= 2 /\ n.industrialization_level >= 2
                  /\ n.political_stability >= 40 * Scale
      [] i = 6 -> n.tech_level >= 1 /\ C12_GdpPerCapita(n) > 500
      [] i = 7 -> n.industrialization_level >= 2
      [] OTHER -> TRUE
C12_FirstMatch(n) ==
    CHOOSE i \in 1..8 : C12_Rule(n, i) /\ \A j \in 1..(i - 1) : ~C12_Rule(n, j)

\* C12: after update_era, nation_era is one of the eight ages and is the age
\* of the first rule of the ladder (Space, Cyber, Industrialization, Steel,
\* Iron, Mythic, Bronze, else Stone) that the nation matches; with tech 5 and
\* industrialization 5 it is Space Age when gdp_per_capita > 30000 and Cyber
\* Age otherwise.
C12_EraIsFirstMatch ==
    last.op = "era" =>
        /\ \E i \in 1..8 : nation.nation_era = C12_Ages[i]
        /\ nation.nation_era = C12_Ages[C12_FirstMatch(last.pre)]
        /\ last.pre.tech_level = 5 /\ last.pre.industrialization_level = 5 =>
              nation.nation_era = IF C12_GdpPerCapita(last.pre) > 30000
                                  THEN "Space Age" ELSE "Cyber Age"

\* update_era on tech 5, industrialization 5 and a gdp_per_capita of exactly
\* 30000 gave Cyber Age.
C12_Witness ==
    /\ last.op = "era"
    /\ last.pre.tech_level = 5
    /\ last.pre.industrialization_level = 5
    /\ last.pre.gdp = 30 * Scale
    /\ last.pre.population = 10 ^ 6
    /\ last.pre.nation_era = "Space Age"
    /\ nation.nation_era = "Cyber Age"

\* C13: an end-turn at a year of 2026 or later requests no event from the AI
\* capability and applies no event text (no message, no statistic changes),
\* and the turn still advances.
C13_NoEventFrom2026 ==
    last.op = "endturn" /\ last.turn >= 2026 =>
        /\ ~last.asked
        /\ last.report = NoneReport
        /\ messages = last.messages
        /\ Untouched
        /\ turn = last.turn + 1

\* The turn of 2026 was ended and 2027 began.
C13_Witness ==
    /\ last.op = "endturn"
    /\ last.turn = 2026
    /\ turn = 2027
    /\ ~last.asked
    /\ Len(nation.stat_history) = 3

\* C14: an end-turn with year < 2026 for which the AI capability returned an
\* event text applies the extractor to the nation with that text (before the
\* turn counter increments): the nation's statistics are those the extractor
\* gives from the statistics before the turn.
C14_EventTextExtracted ==
    /\ last.op = "endturn"
    /\ last.turn < 2026
    /\ Truthy(last.report)
    /\ apply_ai_stats(last.pre, last.report).ok
    => /\ CoreFields(nation) = CoreFields(apply_ai_stats(last.pre, last.report).n)
       /\ turn = last.turn + 1

\* C15: every end-turn increments the turn by exactly one, recomputes
\* nation_era, appends exactly one stat_history snapshot whose Year is the
\* incremented turn and whose values are the nation's fields, and persists the
\* outcome.
C15_EndTurnSequence ==
    last.op = "endturn" =>
        /\ turn = last.turn + 1
        /\ nation.nation_era = EraOf(nation)
        /\ Len(nation.stat_history) = Len(last.pre.stat_history) + 1
        /\ SubSeq(nation.stat_history, 1, Len(last.pre.stat_history)) = last.pre.stat_history
        /\ nation.stat_history[Len(nation.stat_history)] =
              [Year |-> turn, Population |-> nation.population, GDP |-> nation.gdp,
               Treasury |-> nation.treasury, Stability |-> nation.political_stability,
               Approval |-> nation.public_approval, Military |-> nation.military_strength,
               TechLevel |-> nation.tech_level, IndLevel |-> nation.industrialization_level]
        /\ saved.present
        /\ saved.turn_number = turn
        /\ saved.nation = to_dict(nation)
        /\ saved.messages = messages

\* A turn ended in which the era moved, after a directive that raised the
\* industrialization level.
C15_Witness ==
    /\ last.op = "endturn"
    /\ turn = 2026
    /\ nation.nation_era # last.pre.nation_era
    /\ Len(nation.stat_history) = 2
    /\ nation.stat_history[2].Year = 2026
    /\ nation.stat_history[2].IndLevel = 2

\* C16: every ended turn adds a flat 15% of the current GDP to the treasury.
C16_TaxCollected ==
    last.op = "endturn" =>
        100 * (nation.treasury - last.pre.treasury) = 15 * last.pre.gdp

\* C17: within one end-turn the internal-stability resolution runs before the
\* population and GDP growth simulation: the nation after the turn has the
\* stability the resolution leaves and the GDP that growth gives from the GDP
\* the resolution leaves (already reduced by unrest), and the grown population.
C17_StabilityBeforeGrowth ==
    last.op = "endturn" =>
        LET resolved == resolve_internal_stability(last.pre).n
            grown == simulate_economy(resolved)
        IN grown.ok =>
              /\ nation.political_stability = resolved.political_stability
              /\ nation.gdp = grown.n.gdp
              /\ nation.population = simulate_population(resolved).population

\* C18: reconstructing a nation from its own serialization gives a nation with
\* the same value in every field (identity, economy, military, politics,
\* progression, world context, factions, history and stat_history), for every
\* reachable nation.
C18_RoundTrip ==
    session.active => from_dict(to_dict(nation)) = nation

\* A nation loaded from the save of a nation with a moved approval, a history
\* entry and a statistic snapshot: it is the nation that was saved.
C18_Witness ==
    /\ session.active
    /\ last.op = "sideload"
    /\ nation.public_approval # 50 * Scale
    /\ Len(nation.history) = 1
    /\ Len(nation.stat_history) = 1
    /\ saved.nation = to_dict(last.pre)
    /\ nation = last.pre

\* C19: on a directive submission the AI response is applied to the nation
\* exactly once, then exactly one history entry with the current turn and the
\* directive text is appended, then the outcome is persisted; the turn and
\* stat_history are unchanged.
C19_DirectiveSequence ==
    last.op = "directive" =>
        /\ last.asked
        /\ CoreFields(nation) = CoreFields(apply_ai_stats(last.pre, last.report).n)
        /\ Len(nation.history) = Len(last.pre.history) + 1
        /\ SubSeq(nation.history, 1, Len(last.pre.history)) = last.pre.history
        /\ nation.history[Len(nation.history)].year = turn
        /\ nation.history[Len(nation.history)].summary = last.text
        /\ saved = save_game(nation, turn, messages)
        /\ turn = last.turn
        /\ nation.stat_history = last.pre.stat_history

\* The player's actions, and sequence a being a prefix of sequence b.
C20_PlayerActions == {"directive", "endturn", "war", "espionage", "diplomacy"}
C20_Prefix(a, b) == Len(a) <= Len(b) /\ SubSeq(b, 1, Len(a)) = a

\* C20: within a session history and stat_history are append-only: a player
\* action (directive, end turn, war, espionage, diplomacy) leaves every entry
\* there was in place, unchanged, and may only add entries after them.
C20_AppendOnly ==
    last.op \in C20_PlayerActions =>
        /\ C20_Prefix(last.pre.history, nation.history)
        /\ C20_Prefix(last.pre.stat_history, nation.stat_history)

\* A diplomatic cable logged after a first directive.
C20_Witness ==
    /\ last.op = "diplomacy"
    /\ Len(last.pre.history) = 1
    /\ Len(nation.history) = 2
    /\ nation.history[1] = last.pre.history[1]
    /\ nation.stat_history = last.pre.stat_history

\* The last input was turned down and left everything as it was: the nation
\* with its history and stat_history, the turn, the log and the save, and the
\* AI capability was not called.
C21_NothingDone ==
    /\ nation = last.pre
    /\ turn = last.turn
    /\ messages = last.messages
    /\ saved = last.saved
    /\ ~last.asked
    /\ ~last.crashed

C22_ArchiveFailure == last.op = "new" /\ last.text[1] = "unreadable"
C22_AiFailure == last.op = "new" /\ last.asked /\ last.text[2] \in {"raises", "malformed"}
\* The caller handled a failure value: the web handler reported it and made no
\* nation, create_dynamic_nation fell back to the default nation.
C22_Contained ==
    IF last.handler = "Initialize Simulation"
    THEN last.notice # "" /\ ~last.crashed /\ ~session.active /\ ~saved.present
    ELSE last.notice # "" /\ nation = FallbackNation

\* C22: nation-seed generation never raises past its boundary: on any failure
\* (AI unavailable, rate limit exhausted, malformed JSON, unreadable archive)
\* generate_starting_nation returns a failure value distinct from a seed
\* payload, and the caller falls back to the default nation or reports the
\* failure without creating a nation.
C22_SeedFailureContained ==
    C22_ArchiveFailure \/ C22_AiFailure => last.text[3] = "none" /\ C22_Contained

\* The same for the failures of the AI capability alone.
C22_AiFailureContained ==
    C22_AiFailure => last.text[3] = "none" /\ C22_Contained

\* C23: in every state reached by extractor applications, wars and turn
\* simulations from a nation with population >= 0 and military_strength >= 0,
\* population is an integer >= 0 and military_strength is >= 0.
C23_PopulationMilitaryNonNegative ==
    /\ nation.population \in Nat
    /\ nation.military_strength >= 0

\* C24: after every mutating player action of the web application (directive,
\* end turn, war, espionage, diplomacy) the state is persisted before control
\* returns to the player: the saved record's turn number and nation are the
\* turn and the nation in memory, and loading the record restores them.
C24_PersistedAfterAction ==
    /\ last.op \in C20_PlayerActions
    /\ nation # last.pre \/ turn # last.turn
    => /\ saved.present
       /\ saved.turn_number = turn
       /\ saved.nation = to_dict(nation)
       /\ from_dict(saved.nation) = nation

\* The factions of a nation with support below 40 and above 80, and the GDP
\* left by k strikes in a row of 0.5% of the GDP of the moment.
C25_Angry(n) == Cardinality({f \in DOMAIN n.factions : n.factions[f] < 40 * Scale})
C25_Happy(n) == Cardinality({f \in DOMAIN n.factions : n.factions[f] > 80 * Scale})
C25_Struck(gdp, k) ==
    CASE k = 0 -> gdp
      [] k = 1 -> gdp - (gdp * 5) \div 1000
      [] OTHER -> (gdp - (gdp * 5) \div 1000) - ((gdp - (gdp * 5) \div 1000) * 5) \div 1000

\* C25: resolve_internal_stability subtracts 2.0 stability and 0.5% of the
\* then-current GDP for each faction with support < 40 (sequentially,
\* compounding), adds 1.0 stability for each faction with support > 80,
\* subtracts 5.0 stability when approval < 30 or else adds 1% of GDP when
\* approval > 80, and clamps stability to [0, 100] once at the end: the result
\* is the clamp of the unclamped sum of all adjustments.
C25_ResolutionArithmetic ==
    last.op = "stability" /\ ~last.escaped =>
        LET pre == last.pre
            sum == pre.political_stability - 2 * Scale * C25_Angry(pre)
                     + 1 * Scale * C25_Happy(pre)
                     - (IF pre.public_approval < 30 * Scale THEN 5 * Scale ELSE 0)
            struck == C25_Struck(pre.gdp, C25_Angry(pre))
        IN /\ nation.political_stability = Max(0, Min(100 * Scale, sum))
           /\ nation.gdp = IF pre.public_approval >= 30 * Scale
                              /\ pre.public_approval > 80 * Scale
                           THEN struck + struck \div 100 ELSE struck
           /\ nation.factions = pre.factions
           /\ nation.public_approval = pre.public_approval

\* Two factions above 80 on a stability of 99 with an approval of 20: the sum
\* passes 100 before the unrest takes 5, and the result is 96.
C25_Witness ==
    /\ last.op = "stability"
    /\ ~last.escaped
    /\ C25_Happy(last.pre) = 2
    /\ last.pre.political_stability = 99 * Scale
    /\ last.pre.public_approval = 20 * Scale
    /\ nation.political_stability = 96 * Scale

\* Two factions below 40: the second strike takes 0.5% of what the first left.
C25_WitnessCompounding ==
    /\ last.op = "stability"
    /\ C25_Angry(last.pre) = 2
    /\ last.pre.gdp = 40000 * Scale
    /\ nation.gdp = 3960100

\* The last call was on a report of one header and one finite stat line whose
\* label dispatches to tech or industrialization; the level the line is about;
\* and a number of 1/Scale units rounded to the nearest whole number.
C26_Case ==
    /\ LastText
    /\ Len(LastToks) = 2
    /\ LastToks[1].t \in {"hdrBold", "hdrImpact", "hdrUpdates"}
    /\ LastToks[2].t = "stat"
    /\ ~IsInf(LastToks[2].value)
    /\ Dispatch(LastToks[2].label) \in {"tech", "industrialization"}
C26_Level(n) ==
    IF Dispatch(LastToks[2].label) = "tech" THEN n.tech_level ELSE n.industrialization_level
C26_Nearest(x) == (2 * x + Scale) \div (2 * Scale)

\* C26: when the extractor applies a fractional tech or industrialization
\* delta, the new level is the current level plus the delta rounded to the
\* nearest integer and then clamped to [1, 5] (level 2 with +0.6 becomes 3).
C26_LevelRoundedToNearest ==
    C26_Case =>
        C26_Level(nation) =
            Max(1, Min(5, C26_Nearest(C26_Level(last.pre) * Scale + LastToks[2].value)))


\* The last call was on a report of one header and one finite stat line with a
\* percent sign whose label dispatches to stability or approval; the field
\* the line is about.
C27_Case ==
    /\ LastText
    /\ Len(LastToks) = 2
    /\ LastToks[1].t \in {"hdrBold", "hdrImpact", "hdrUpdates"}
    /\ LastToks[2].t = "stat"
    /\ LastToks[2].pct
    /\ ~IsInf(LastToks[2].value)
    /\ Dispatch(LastToks[2].label) \in {"stability", "approval"}
C27_Field(n) ==
    IF Dispatch(LastToks[2].label) = "stability" THEN n.political_stability
    ELSE n.public_approval

\* C27: a stability or approval line whose value carries a percent sign
\* changes the field by current * value / 100, clamped to [0, 100]
\* (stability 40 with "+10%" becomes 44; here 50 becomes 55).
C27_PercentOfCurrent ==
    C27_Case =>
        C27_Field(nation) * 100 * Scale =
            Clamp(0, 100 * Scale * 100 * Scale,
                  C27_Field(last.pre) * 100 * Scale
                      + C27_Field(last.pre) * LastToks[2].value)


\* ------------------------------------------------- execute_war on its own
\* Nation.execute_war called directly, as the resolver a caller may hand any
\* commitment from 0 to 100 and any target strength, 0 included.  Strengths
\* are chosen so that one pairing ties: 400 * 1.2 * 1.2 * 0.5 = 288 = 240 * 1.2.
WarCommitments == {0, 10, 50, 100}
WarTargetStrengths == {0, 100 * Scale, 240 * Scale}
WarStabilities == {5 * Scale, 50 * Scale}
WarTechLevels == {1, 3}

WarInit ==
    \E st \in WarStabilities, t \in WarTechLevels :
        \E n \in {NewNation(CountryInput, 2025, 1015, 1000 * Scale, 400 * Scale, st,
                            SeedBriefing, <<CountryInput, 2025>>, {}, SeedWorldGdp,
                            SeedWorldMilitary, <<>>, SeedFlag, 1, t, "Stone Age",
                            SeedNeighbors)} :
           /\ nation = n
           /\ turn = 2025
           /\ messages = <<>>
           /\ saved = [present |-> FALSE]
           /\ session = Session(TRUE, FALSE, <<>>)
           /\ last = Last("new", NoneReport, n, NoExtract, NoWar)
           /\ steps = 0
           /\ archive = AbsentArchive

\* nation.execute_war(target_name, target_base_strength, force_commitment_pct);
\* last.text keeps the three random draws.
ExecuteWar ==
    /\ steps < MaxSteps
    /\ \E tbs \in WarTargetStrengths, pct \in WarCommitments, roll \in Rolls,
          et \in EnemyTechLevels(nation) :
        \E w \in {execute_war(nation, tbs, pct, et, roll[1], roll[2])} :
           /\ w.ok
           /\ nation' = w.n
           /\ last' = [Last("execute_war", NoneReport, nation, NoExtract,
                            [target |-> "Rival", target_base_strength |-> tbs,
                             force_commitment_pct |-> pct, result |-> w.result,
                             player_power |-> w.player_power,
                             enemy_power |-> w.enemy_power,
                             cost_billions |-> w.cost_billions])
                       EXCEPT !.text = <<et, roll[1], roll[2]>>]
           /\ steps' = steps + 1
           /\ UNCHANGED <<turn, messages, saved, session, archive>>

WarSpec == WarInit /\ [][ExecuteWar]_vars

\* The two rolls of the last execute_war, each times 5000 * 100 and computed in whole units from the nation before the call and the inputs:
\* player_roll = military * (1 + 0.2 tech) * (1 + 0.2 ind) * max(0.1, stability / 100)
\*               * commitment / 100 * draw,
\* enemy_roll = target strength * (1 + 0.2 enemy tech) * draw.
C28_Whole ==
    /\ last.pre.military_strength % Scale = 0
    /\ last.pre.political_stability % Scale = 0
    /\ last.war.target_base_strength % Scale = 0
    /\ last.war.force_commitment_pct % 10 = 0
    /\ last.text[2] % 5 = 0 /\ last.text[3] % 5 = 0
C28_PlayerRoll ==
    (last.pre.military_strength \div Scale)
        * (5 + last.pre.tech_level) * (5 + last.pre.industrialization_level)
        * Max(10, last.pre.political_stability \div Scale)
        * (last.war.force_commitment_pct \div 10) * (last.text[2] \div 5)
C28_EnemyRoll ==
    (last.war.target_base_strength \div Scale) * (5 + last.text[1])
        * (last.text[3] \div 5) * 5000
C28_VictoryEffects ==
    /\ nation.political_stability = last.pre.political_stability + 5 * Scale
    /\ nation.public_approval = last.pre.public_approval + 10 * Scale
    /\ 2 * (nation.gdp - last.pre.gdp) = last.war.target_base_strength
    /\ nation.population =
           last.pre.population + (last.war.target_base_strength \div Scale) * 10000
    /\ 100 * (last.pre.military_strength - nation.military_strength)
           = 5 * last.pre.military_strength
C28_DefeatEffects ==
    /\ nation.political_stability = last.pre.political_stability - 15 * Scale
    /\ nation.public_approval = last.pre.public_approval - 20 * Scale
    /\ nation.gdp = last.pre.gdp
    /\ nation.population = last.pre.population
    /\ 200 * (last.pre.military_strength - nation.military_strength)
           = last.pre.military_strength * last.war.force_commitment_pct

\* C28: execute_war reports VICTORY exactly when the player's perturbed
\* committed power strictly exceeds the enemy's perturbed power and DEFEAT
\* otherwise, equal rolls and a commitment of 0 included; the effects applied
\* are those of the reported result and of no other.
C28_StrictComparisonDecides ==
    last.op = "execute_war" =>
        /\ C28_Whole
        /\ last.war.result \in {"VICTORY", "DEFEAT"}
        /\ last.war.result = "VICTORY" <=> C28_PlayerRoll > C28_EnemyRoll
        /\ last.war.result = "VICTORY" => C28_VictoryEffects /\ ~C28_DefeatEffects
        /\ last.war.result = "DEFEAT" => C28_DefeatEffects /\ ~C28_VictoryEffects

\* A tie between two non-zero rolls was resolved, as a DEFEAT.
C28_Witness ==
    /\ last.op = "execute_war"
    /\ C28_PlayerRoll = C28_EnemyRoll
    /\ C28_PlayerRoll > 0
    /\ last.war.result = "DEFEAT"
    /\ C28_DefeatEffects

\* A commitment of 0 was resolved; a victory was won.
C28_WitnessZeroCommitment ==
    /\ last.op = "execute_war"
    /\ last.war.force_commitment_pct = 0
    /\ last.war.result = "DEFEAT"
C28_WitnessVictory ==
    /\ last.op = "execute_war"
    /\ last.war.result = "VICTORY"
    /\ C28_VictoryEffects


\* C29: a directive can be submitted in any reachable state of the session:
\* parse_directive returns without raising for a nation whose history holds
\* entries written by add_event, and the directive is then processed like the
\* first one (applied, logged and persisted).
C29_DirectiveOnAnyHistory ==
    (last.op = "directive" /\ Len(last.pre.history) > 0) =>
        /\ ~last.crashed
        /\ Len(nation.history) = Len(last.pre.history) + 1
        /\ saved = save_game(nation, turn, messages)


\* C30: whenever a game becomes active or a turn ends (new game, URL
\* recovery, main-menu load, sidebar load, end turn), nation_era is what the
\* era ladder gives on the nation's current fields.
C30_EraCurrentWhenActive ==
    (/\ last.op \in {"new", "recover", "menuload", "sideload", "endturn"}
     /\ session.active
     /\ ~last.crashed) =>
        nation.nation_era = EraOf(nation)

\* C30, the four other entry points: all but the sidebar load leave the era
\* current.
C30_EraCurrentButSidebar ==
    (/\ last.op \in {"new", "recover", "menuload", "endturn"}
     /\ session.active
     /\ ~last.crashed) =>
        nation.nation_era = EraOf(nation)

====
